---------------------------- MODULE Spec2Model ----------------------------
(***************************************************************************)
(* A model of costco_scraper.py: one run of run_sync, from load_cookies    *)
(* through the probe / interactive refresh, paginate_api, the GraphQL      *)
(* enrichment of write_snapshot_csv_enriched, the snapshot rotation and    *)
(* compute_deltas.                                                         *)
(*                                                                         *)
(* Conventions.                                                            *)
(*  - A Python value that may be None is a set with at most one element:   *)
(*    {} is None, {v} is v.  A file is the same: {} is "does not exist".   *)
(*  - A Python dict is a function whose DOMAIN is the set of its keys.     *)
(*  - Field values of documents and rows are strings; the JSON null /      *)
(*    Python None inside a dict is the marker None.                        *)
(*  - The servers are the environment: every response is drawn with \E     *)
(*    from the outcomes the code distinguishes.                            *)
(***************************************************************************)
EXTENDS Integers, Sequences, FiniteSets, TLC

VARIABLES
    pc,                 \* position of the run inside run_sync
    csvOps,             \* the operations of this run on the snapshot and delta files
    afterCrash,         \* this run started on the files a killed run left
    error,              \* "" or the exception that ended the run
    disk,               \* the files: cookies, out, prev, added, removed, changed
    disk0,              \* the files as they were when the run started
    cookies,            \* run_sync: cookies (None or a list)
    cookie_header,      \* run_sync: cookie_header (None or a string)
    status,             \* run_sync: status of the last probe (None or a number)
    probeLog,           \* one entry per probe issued: the header sent, the status
    nRefresh,           \* calls of refresh_cookies_interactive in this run
    elapsed,            \* refresh_cookies_interactive: time.time() - start at the loop test
    polled,             \* refresh_cookies_interactive: cookies read inside the loop (None before)
    nPaginate,          \* calls of paginate_api in this run
    catalog,            \* search server: the documents it holds
    page_rows,          \* paginate_api: page_rows
    start,              \* paginate_api: start
    all_docs,           \* paginate_api: all_docs
    num_found,          \* paginate_api: num_found (None or a number)
    pageLog,            \* one entry per page request of this paginate_api call
    docs,               \* run_sync: docs (None until paginate_api returned)
    BATCH,              \* write_snapshot_csv_enriched: BATCH
    unique_item_numbers,\* write_snapshot_csv_enriched: unique_item_numbers
    i,                  \* write_snapshot_csv_enriched: loop variable i (0-based)
    attempt,            \* tenacity: attempts made for the current batch
    product_graph_map,  \* write_snapshot_csv_enriched: product_graph_map
    fetchLog,           \* one entry per batch: its range, attempts and result
    rows,               \* write_snapshot_csv_enriched: rows (None until built)
    \* the price-backfill utility (Headers/session, stream_process)
    bpc,                \* position inside stream_process
    INPUT,              \* the rows of the input file, as stored
    CHUNKSIZE,          \* rows per chunk
    row_offset,         \* stream_process: row_offset
    cache,              \* stream_process: cache, token -> (price or None, url)
    OUT,                \* the rows appended to the output file
    REPORT,             \* the rows appended to the report file
    \* the GUI (costco_gui.py)
    mainloop,           \* root.mainloop() is running
    filtered_warehouses,\* self.filtered_warehouses, the rows of the listbox
    scrape_btn,         \* state of self.scrape_btn: "normal" or "disabled"
    threads,            \* the worker threads started, in the order of their start
    after_queue         \* callbacks handed to root.after, not yet run

scraperVars == <<pc, csvOps, afterCrash, error, disk, disk0, cookies, cookie_header, status, probeLog,
                 nRefresh, elapsed, polled, nPaginate, catalog, page_rows, start, all_docs, num_found,
                 pageLog, docs, BATCH, unique_item_numbers, i, attempt,
                 product_graph_map, fetchLog, rows>>

backfillVars == <<bpc, INPUT, CHUNKSIZE, row_offset, cache, OUT, REPORT>>
guiVars == <<mainloop, filtered_warehouses, scrape_btn, threads, after_queue>>

\* the state of the two programs beside the scraper
toolVars == <<backfillVars, guiVars>>

vars == <<scraperVars, toolVars>>

authVars == <<cookies, cookie_header, status, probeLog, nRefresh>>
pollVars == <<elapsed, polled>>
pageVars == <<catalog, page_rows, start, all_docs, num_found, pageLog>>
enrichVars == <<BATCH, unique_item_numbers, i, attempt, product_graph_map,
                fetchLog, rows>>

----------------------------------------------------------------------------
(* Bounds of the model.                                                    *)

\* longest document list the search server holds
MaxDocs == 2
\* page_rows ranges over 1..MaxPageRows (the program runs with PAGE_ROWS = 100)
MaxPageRows == 2
\* numFound values the server declares range over 0..MaxNumFound
MaxNumFound == 3
\* BATCH ranges over 1..MaxBatch (the program runs with GRAPHQL_BATCH = 100)
MaxBatch == 2
\* a sleep of the poll loop returns up to MaxLate time units late
MaxLate == 1
\* longest cookie list the header is derived from
MaxCookies == 3
\* longest input file of the backfill utility, in rows
MaxRows == 2
\* CHUNKSIZE ranges over 1..MaxChunk
MaxChunk == 2
\* worker threads the GUI starts in one session
MaxThreads == 2

----------------------------------------------------------------------------
(* Python values.                                                          *)

\* None stored inside a dict (a JSON null, a row's missing price)
None == "<None>"

\* an empty dict
EmptyDict == [k \in {} |-> None]

\* bool(v) for a string-or-None value
Truthy(v) == v # None /\ v # ""

\* a or b
Or(a, b) == IF Truthy(a) THEN a ELSE b

\* d.get(k, default)
Get(d, k, default) == IF k \in DOMAIN d THEN d[k] ELSE default

\* d.get(k)
Get1(d, k) == Get(d, k, None)

\* sub in s
Contains(s, sub) ==
    \E k \in 1..(Len(s) + 1) :
        /\ k + Len(sub) - 1 <= Len(s)
        /\ SubSeq(s, k, k + Len(sub) - 1) = sub

UpperLetters == "ABCDEFGHIJKLMNOPQRSTUVWXYZ"
LowerLetters == "abcdefghijklmnopqrstuvwxyz"

LowerChar(c) ==
    IF \E k \in 1..26 : SubSeq(UpperLetters, k, k) = c
    THEN LET k == CHOOSE k \in 1..26 : SubSeq(UpperLetters, k, k) = c
         IN  SubSeq(LowerLetters, k, k)
    ELSE c

\* s.lower()
RECURSIVE lower(_)
lower(s) ==
    IF Len(s) = 0 THEN ""
    ELSE LowerChar(SubSeq(s, 1, 1)) \o lower(SubSeq(s, 2, Len(s)))

\* s.strip(), for the whitespace the model's strings contain (blanks)
RECURSIVE strip(_)
strip(s) ==
    IF Len(s) = 0 THEN ""
    ELSE IF SubSeq(s, 1, 1) = " " THEN strip(SubSeq(s, 2, Len(s)))
    ELSE IF SubSeq(s, Len(s), Len(s)) = " " THEN strip(SubSeq(s, 1, Len(s) - 1))
    ELSE s

\* the elements of a sequence
Range(s) == {s[k] : k \in 1..Len(s)}

\* ceil(a / b)
CeilDiv(a, b) == (a + b - 1) \div b

\* all sequences over S of length at most n
SeqsUpTo(S, n) == UNION {[1..k -> S] : k \in 0..n}

----------------------------------------------------------------------------
(* Configuration (costco_scraper.py, lines 44-87).                         *)

CSV_FIELDS == <<"id", "item_number", "name", "price", "listPrice", "product_pic",
                "product_description", "deliveryStatus", "availability",
                "review_count", "review_ratings", "categoryPath",
                "order_channel">>

WAREHOUSE_NUMBER == "388"

\* stop_after_attempt(3)
StopAfterAttempt == 3

----------------------------------------------------------------------------
(* The credential store.                                                   *)

\* cookie lists the store or the browser can hold
OldCookies == <<[name |-> "bm_sz", value |-> "old"]>>
NewCookies == <<[name |-> "_abck", value |-> "new"], [name |-> "sid", value |-> "s"]>>

\* what the store can hold when a run starts, what the browser can hand back
StoredCookieLists == {OldCookies}
BrowserCookieLists == {<<>>, NewCookies}

\* what context.cookies() can return inside the loop: also cookies none of
\* which is a security cookie
OtherCookies == <<[name |-> "sid", value |-> "s"]>>
ContextCookieLists == BrowserCookieLists \cup {OtherCookies}

\* line 154: any(k in names for k in ("bm_s","bm_sz","bm_sc","_abck","ak_bmsc"))
SecurityCookieNames == {"bm_s", "bm_sz", "bm_sc", "_abck", "ak_bmsc"}

\* lines 152-154: if cookies: ... if any(...)
RecognizedNever(cs) == FALSE
Recognized(cs) == Len(cs) > 0 /\ \E k \in 1..Len(cs) : cs[k].name \in SecurityCookieNames

\* line 150: while time.time() - start < 120; line 157: asyncio.sleep(2)
PollCeiling == 120
PollSleep == 2
LoopRuns(t) == t < PollCeiling

\* contents the cookie file can have: the JSON text of a list, or text that
\* json.loads rejects
JsonOf(cs) == [valid |-> TRUE, list |-> cs]
Corrupt == [valid |-> FALSE, list |-> <<>>]
CookieFileContents == {JsonOf(cs) : cs \in StoredCookieLists} \cup {Corrupt}

\* a load that hands back whatever it could make of the file
load_cookies_any(d) ==
    IF d.cookies = {} THEN {} ELSE {(CHOOSE f \in d.cookies : TRUE).list}

\* load_cookies(): None when the file is missing or unreadable
load_cookies(d) ==
    IF d.cookies = {} THEN {}
    ELSE LET f == CHOOSE f \in d.cookies : TRUE
         IN  IF f.valid THEN {f.list} ELSE {}

\* "; ".join(f"{c['name']}={c['value']}" for c in cookies if 'name' in c and 'value' in c)
RECURSIVE JoinPairs(_)
JoinPairs(cs) ==
    IF Len(cs) = 0 THEN ""
    ELSE LET c == cs[1]
             rest == SubSeq(cs, 2, Len(cs))
             kept(x) == "name" \in DOMAIN x /\ "value" \in DOMAIN x
             tail == SelectSeq(rest, kept)
         IN  IF ~kept(c) THEN JoinPairs(rest)
             ELSE IF Len(tail) = 0 THEN c["name"] \o "=" \o c["value"]
             ELSE c["name"] \o "=" \o c["value"] \o "; " \o JoinPairs(rest)

\* the pairs taken from the last entry to the first
cookie_header_backwards(cs) == JoinPairs([k \in 1..Len(cs) |-> cs[Len(cs) + 1 - k]])

cookie_header_from_list(cs) == JoinPairs(cs)

\* cookie_header_from_list(cookies) if cookies else None   (lines 473, 479)
HeaderOf(ck) ==
    IF ck = {} THEN {}
    ELSE LET cs == CHOOSE c \in ck : TRUE
         IN  IF Len(cs) = 0 THEN {} ELSE {cookie_header_from_list(cs)}


----------------------------------------------------------------------------
(* The search server's documents.  Field-name variants as in the source:   *)
(* the item number under item_number / item_location_itemNumber /          *)
(* itemNumber, the price under item_location_pricing_salePrice /           *)
(* minSalePrice, the name under item_product_name / name.  Values are      *)
(* scalars; DocEmpty lacks every field.                                    *)

DocA == [id |-> "1", item_number |-> "A", item_product_name |-> "Apples",
         item_location_pricing_salePrice |-> "5",
         deliveryStatus |-> "Ships Online Only"]

DocB == [id |-> "2", itemNumber |-> "B", name |-> "Bread",
         minSalePrice |-> "3", deliveryStatus |-> " "]

DocA2 == [id |-> "1", item_location_itemNumber |-> "A",
          item_location_pricing_salePrice |-> "",
          deliveryStatus |-> "Warehouse Only"]

DocEmpty == EmptyDict

\* a sale price with no deliveryStatus key, and with an empty one
DocNoStatus == [id |-> "2", item_number |-> "B", name |-> "Bread",
                item_location_pricing_salePrice |-> "4"]

DocBlankStatus == [id |-> "2", item_number |-> "B", minSalePrice |-> "4",
                   deliveryStatus |-> ""]

\* values that are also tokens pandas.read_csv takes for missing data
DocNaId == [id |-> "NA", item_number |-> "A", name |-> "Apples",
            item_location_pricing_salePrice |-> "5", deliveryStatus |-> "In Stock"]

DocNaField == [id |-> "2", item_number |-> "B", name |-> "Bread",
               item_location_pricing_salePrice |-> "3",
               item_location_availability |-> "N/A", deliveryStatus |-> "In Stock"]

\* the documents the server of the modelled run can hold (DocA2 is a document
\* of an earlier run)
DocUniverse == {DocA, DocB, DocEmpty}

Catalogs == SeqsUpTo(DocUniverse, MaxDocs)

----------------------------------------------------------------------------
(* run_sync, lines 471-486: load, probe, refresh, probe again.             *)

\* probe_api_with_cookies returns (r.status_code, r), or (None, None) when
\* requests.get raised
ProbeStatuses == {{200}, {401}, {403}, {}}

\* a run that paginates whatever the probe said
AfterProbeAnyway(st) == "paginate"

\* line 475: if status != 200
AfterProbe(st) == IF st # {200} THEN "refresh" ELSE "paginate"

\* lines 484-486: the probe after the refresh
AfterReprobeMore(st) == IF st # {200} THEN "refresh" ELSE "paginate"
AfterReprobe(st) == IF st # {200} THEN "aborted" ELSE "paginate"

\* the backfill utility has not been started
BackfillIdle ==
    /\ bpc = "idle"
    /\ INPUT = <<>>
    /\ CHUNKSIZE = 1
    /\ row_offset = 0
    /\ cache = EmptyDict
    /\ OUT = <<>>
    /\ REPORT = <<>>

\* the GUI has not been started
GuiIdle ==
    /\ mainloop = FALSE
    /\ filtered_warehouses = <<>>
    /\ scrape_btn = "normal"
    /\ threads = <<>>
    /\ after_queue = <<>>

ToolsIdle == BackfillIdle /\ GuiIdle

ErrRefresh == "SystemExit: Cookie refresh failed; cannot proceed."
ErrAuth == "SystemExit: Authorization failed after refresh; manual inspection required."

LoadCookies ==
    /\ pc = "start"
    /\ UNCHANGED <<csvOps, afterCrash>>
    /\ UNCHANGED toolVars
    /\ UNCHANGED pollVars
    /\ cookies' = load_cookies(disk)
    /\ cookie_header' = HeaderOf(cookies')
    /\ pc' = "probe"
    /\ UNCHANGED <<error, disk, disk0, status, probeLog, nRefresh, nPaginate,
                   docs>>
    /\ UNCHANGED pageVars
    /\ UNCHANGED enrichVars

Probe ==
    /\ pc = "probe"
    /\ UNCHANGED <<csvOps, afterCrash>>
    /\ UNCHANGED toolVars
    /\ UNCHANGED pollVars
    /\ \E st \in ProbeStatuses :
          /\ status' = st
          /\ probeLog' = Append(probeLog, [header |-> cookie_header, status |-> st])
          /\ pc' = AfterProbe(st)
    /\ UNCHANGED <<error, disk, disk0, cookies, cookie_header, nRefresh,
                   nPaginate, docs>>
    /\ UNCHANGED pageVars
    /\ UNCHANGED enrichVars

\* save_cookies(cookies): the write may fail, which is swallowed (lines 99-103)
save_cookies(d, cs, ok) == IF ok THEN [d EXCEPT !.cookies = {JsonOf(cs)}] ELSE d

\* lines 139-149: the browser is opened, the page loaded (a failure of goto
\* is logged only) and the clock of the loop started
RefreshBegin ==
    /\ pc = "refresh"
    /\ UNCHANGED <<csvOps, afterCrash>>
    /\ UNCHANGED toolVars
    /\ nRefresh' = nRefresh + 1
    /\ elapsed' = 0
    /\ polled' = {}
    /\ pc' = "poll"
    /\ UNCHANGED <<error, disk, disk0, cookies, cookie_header, status, probeLog,
                   nPaginate, docs>>
    /\ UNCHANGED pageVars
    /\ UNCHANGED enrichVars

\* lines 150-157: one test of the while condition and, when it holds, one
\* pass of the loop body; asyncio.sleep(2) returns PollSleep or more later
PollCookies ==
    /\ pc = "poll"
    /\ UNCHANGED <<csvOps, afterCrash>>
    /\ UNCHANGED toolVars
    /\ IF LoopRuns(elapsed)
       THEN \E cs \in ContextCookieLists :
               /\ polled' = {cs}
               /\ IF Recognized(cs)
                  THEN pc' = "capture" /\ elapsed' = elapsed
                  ELSE /\ pc' = "poll"
                       /\ \E late \in 0..MaxLate : elapsed' = elapsed + PollSleep + late
       ELSE pc' = "capture" /\ UNCHANGED pollVars
    /\ UNCHANGED <<error, disk, disk0, nPaginate, docs>>
    /\ UNCHANGED authVars
    /\ UNCHANGED pageVars
    /\ UNCHANGED enrichVars

\* lines 158-161 and 478-479: the cookies are read once more, saved and
\* returned to run_sync
RefreshReturns ==
    /\ pc = "capture"
    /\ UNCHANGED <<csvOps, afterCrash>>
    /\ UNCHANGED toolVars
    /\ \E cs \in BrowserCookieLists, ok \in BOOLEAN :
          /\ disk' = save_cookies(disk, cs, ok)
          /\ cookies' = {cs}
          /\ cookie_header' = HeaderOf({cs})
    /\ polled' = {}
    /\ pc' = "reprobe"
    /\ UNCHANGED <<error, disk0, status, probeLog, nRefresh, elapsed, nPaginate, docs>>
    /\ UNCHANGED pageVars
    /\ UNCHANGED enrichVars

\* asyncio.run(refresh_cookies_interactive()) raised (lines 480-482): the
\* browser could not be started, or it was closed under the loop
RefreshRaises ==
    /\ pc \in {"refresh", "poll", "capture"}
    /\ UNCHANGED <<csvOps, afterCrash>>
    /\ UNCHANGED toolVars
    /\ nRefresh' = IF pc = "refresh" THEN nRefresh + 1 ELSE nRefresh
    /\ elapsed' = 0
    /\ polled' = {}
    /\ error' = ErrRefresh
    /\ pc' = "aborted"
    /\ UNCHANGED <<disk, disk0, cookies, cookie_header, status, probeLog,
                   nPaginate, docs>>
    /\ UNCHANGED pageVars
    /\ UNCHANGED enrichVars

Reprobe ==
    /\ pc = "reprobe"
    /\ UNCHANGED <<csvOps, afterCrash>>
    /\ UNCHANGED toolVars
    /\ elapsed' = 0
    /\ polled' = {}
    /\ \E st \in ProbeStatuses :
          /\ status' = st
          /\ probeLog' = Append(probeLog, [header |-> cookie_header, status |-> st])
          /\ pc' = AfterReprobe(st)
          /\ error' = IF AfterReprobe(st) = "aborted" THEN ErrAuth ELSE error
    /\ UNCHANGED <<disk, disk0, cookies, cookie_header, nRefresh, nPaginate,
                   docs>>
    /\ UNCHANGED pageVars
    /\ UNCHANGED enrichVars

----------------------------------------------------------------------------
(* paginate_api, lines 163-197.                                            *)

\* what session.get / r.json() can produce for one page request: a transport
\* exception, a body that is not JSON, or a response with a status and, when
\* 200, an optional numFound.  The docs of a 200 response are the server's
\* slice of its catalog at start / rows.
NumFoundValues == {{}} \cup {{n} : n \in 0..MaxNumFound}

PageResponses ==
    {[kind |-> "transport", status |-> {}, numFound |-> {}],
     [kind |-> "badjson", status |-> {200}, numFound |-> {}],
     [kind |-> "http", status |-> {401}, numFound |-> {}],
     [kind |-> "http", status |-> {500}, numFound |-> {}]}
    \cup {[kind |-> "http", status |-> {200}, numFound |-> nf] : nf \in NumFoundValues}

\* the server's page: docs[start : start + rows]
ServerPage(cat, st, rws) ==
    SubSeq(cat, st + 1, IF st + rws < Len(cat) THEN st + rws ELSE Len(cat))

Err401 == "RuntimeError: 401 Unauthorized during pagination"
ErrHttp(st) == "RuntimeError: HTTP " \o ToString(st)
ErrTransport == "requests.exceptions.RequestException"
ErrJson == "JSONDecodeError"

\* the exception one page request ends with, "" when there is none
\* (lines 175-181)
PageErrorSame(resp) ==
    IF resp.kind = "transport" THEN ErrTransport
    ELSE IF resp.status # {200} THEN ErrHttp(CHOOSE s \in resp.status : TRUE)
    ELSE IF resp.kind = "badjson" THEN ErrJson
    ELSE ""
PageError(resp) ==
    IF resp.kind = "transport" THEN ErrTransport
    ELSE IF resp.status = {401} THEN Err401
    ELSE IF resp.status # {200} THEN ErrHttp(CHOOSE s \in resp.status : TRUE)
    ELSE IF resp.kind = "badjson" THEN ErrJson
    ELSE ""

\* lines 184-185: num_found is read while it is still None
LatchNumFound(nf, respNf) == IF nf = {} THEN respNf ELSE nf

\* lines 187-194: the three breaks, evaluated after the page was accumulated
\* (an empty page breaks before the extend, which adds nothing)
StopAfterPageNoShort(pagedocs, acc, nf, rws) ==
    \/ Len(pagedocs) = 0
    \/ (nf # {} /\ \A n \in nf : acc >= n)
StopAfterPageNoTotal(pagedocs, acc, nf, rws) ==
    \/ Len(pagedocs) = 0
    \/ Len(pagedocs) < rws
StopAfterPage(pagedocs, acc, nf, rws) ==
    \/ Len(pagedocs) = 0
    \/ (nf # {} /\ \A n \in nf : acc >= n)
    \/ Len(pagedocs) < rws

\* lines 507-509: run_sync logs the RuntimeError and re-raises it; any other
\* exception is not caught at all
OnPaginateErrorSwallow(e) == "enrich"
OnPaginateError(e) == "aborted"

PaginateBegin ==
    /\ pc = "paginate"
    /\ UNCHANGED <<csvOps, afterCrash>>
    /\ UNCHANGED toolVars
    /\ UNCHANGED pollVars
    /\ nPaginate' = nPaginate + 1
    /\ \E cat \in Catalogs, rws \in 1..MaxPageRows :
          /\ catalog' = cat
          /\ page_rows' = rws
    /\ start' = 0
    /\ all_docs' = <<>>
    /\ num_found' = {}
    /\ pageLog' = <<>>
    /\ pc' = "page"
    \* lines 487-504 built headers from cookie_header; cookies, status and
    \* resp are not read again
    /\ cookies' = {}
    /\ status' = {}
    /\ probeLog' = <<>>
    /\ UNCHANGED <<error, disk, disk0, docs, cookie_header, nRefresh>>
    /\ UNCHANGED enrichVars

\* one iteration of the while loop
PaginatePage ==
    /\ pc = "page"
    /\ UNCHANGED <<csvOps, afterCrash>>
    /\ UNCHANGED toolVars
    /\ UNCHANGED pollVars
    /\ \E resp \in PageResponses :
          LET e == PageError(resp)
              pagedocs == ServerPage(catalog, start, page_rows)
              nf == LatchNumFound(num_found, resp.numFound)
              acc == all_docs \o pagedocs
              stop == StopAfterPage(pagedocs, Len(acc), nf, page_rows)
          IN  IF e # ""
              THEN /\ error' = e
                   /\ pc' = OnPaginateError(e)
                   /\ docs' = IF pc' = "aborted" THEN docs ELSE {<<>>}
                   /\ pageLog' = Append(pageLog,
                          [start |-> start, header |-> cookie_header,
                           status |-> resp.status, docs |-> <<>>,
                           num_found |-> num_found, acc |-> Len(all_docs),
                           stop |-> TRUE, error |-> e])
                   /\ UNCHANGED <<start, all_docs, num_found>>
              ELSE /\ num_found' = nf
                   /\ all_docs' = acc
                   /\ pageLog' = Append(pageLog,
                          [start |-> start, header |-> cookie_header,
                           status |-> resp.status, docs |-> pagedocs,
                           num_found |-> nf, acc |-> Len(acc),
                           stop |-> stop, error |-> ""])
                   /\ start' = IF stop THEN start ELSE start + page_rows
                   /\ pc' = IF stop THEN "paginated" ELSE "page"
                   /\ UNCHANGED <<error, docs>>
    /\ UNCHANGED <<disk, disk0, nPaginate, catalog, page_rows>>
    /\ UNCHANGED authVars
    /\ UNCHANGED enrichVars

\* return all_docs (line 197): the locals of paginate_api are gone
PaginateReturn ==
    /\ pc = "paginated"
    /\ UNCHANGED <<csvOps, afterCrash>>
    /\ UNCHANGED toolVars
    /\ UNCHANGED pollVars
    /\ docs' = {all_docs}
    /\ catalog' = <<>>
    /\ page_rows' = 1
    /\ start' = 0
    /\ all_docs' = <<>>
    /\ num_found' = {}
    /\ pageLog' = <<>>
    /\ pc' = "enrich"
    \* headers (and with it cookie_header) is not read again, and nothing after
    \* this line calls refresh_cookies_interactive: its count ends here
    /\ cookie_header' = {}
    /\ nRefresh' = 0
    /\ UNCHANGED <<error, disk, disk0, nPaginate, cookies, status, probeLog>>
    /\ UNCHANGED enrichVars

----------------------------------------------------------------------------
(* The GraphQL enrichment: fetch_products_graphql under tenacity's @retry  *)
(* (lines 263-332) and the classifier (lines 208-261).                     *)

\* item numbers in sorted() order
ItemOrder == <<"A", "B">>

\* d.get("item_number") or d.get("item_location_itemNumber") or d.get("itemNumber") or ""
ItemNumberOf(d) ==
    Or(Get1(d, "item_number"),
       Or(Get1(d, "item_location_itemNumber"), Or(Get1(d, "itemNumber"), "")))

\* lines 393-398: sorted(set(item_numbers))
UniqueItemNumbers(ds) ==
    LET S == {ItemNumberOf(ds[k]) : k \in 1..Len(ds)} \ {""}
        in(n) == n \in S
    IN  SelectSeq(ItemOrder, in)

\* a slice that reaches one identifier into the next batch
BatchAtOverlap(u, at, size) ==
    SubSeq(u, at + 1, IF at + size + 1 < Len(u) THEN at + size + 1 ELSE Len(u))

\* unique_item_numbers[i:i+BATCH]
BatchAt(u, at, size) ==
    SubSeq(u, at + 1, IF at + size < Len(u) THEN at + size ELSE Len(u))

\* a key of a nested payload dict: payload.get(k) or []
GetList(d, k) == IF k \in DOMAIN d THEN d[k] ELSE <<>>

\* the products object of a response, for the items of one batch.  The server
\* answers about the requested items only.
CatEntry(n, attrs) ==
    [itemNumber |-> n, attributes |-> attrs,
     priceData |-> [price |-> "9", listPrice |-> "10"]]
OnlineAttr == <<[key |-> "Badge", value |-> "Online Only"]>>
WarehouseAttr == <<[key |-> " Warehouse Only ", value |-> "true"]>>
WarehouseFulfil(n) ==
    [itemNumber |-> n, warehouseNumber |-> WAREHOUSE_NUMBER, channel |-> "wh"]

PlainCatalog(batch) == [k \in 1..Len(batch) |-> CatEntry(batch[k], <<>>)]

Products(batch, flavour) ==
    CASE flavour = "plain" ->
            [catalogData |-> PlainCatalog(batch)]
      [] flavour = "both" ->
            [catalogData |-> <<CatEntry(batch[1], OnlineAttr)>>,
             childData |-> [catalogData |-> <<CatEntry(batch[Len(batch)], <<>>)>>],
             fulfillmentData |-> <<WarehouseFulfil(batch[1])>>]

Flavours == {"plain", "both"}

\* what requests.post can produce for one attempt: a transport exception, or
\* a response with a status, an "errors" member or not, and a products object
EnrichResponses(batch) ==
    {[kind |-> "transport", status |-> 0, errors |-> FALSE, products |-> EmptyDict],
     [kind |-> "http", status |-> 500, errors |-> FALSE, products |-> EmptyDict],
     [kind |-> "http", status |-> 202, errors |-> FALSE, products |-> Products(batch, "plain")],
     [kind |-> "http", status |-> 200, errors |-> TRUE, products |-> EmptyDict]}
    \cup {[kind |-> "http", status |-> 200, errors |-> FALSE, products |-> Products(batch, f)] :
             f \in Flavours}

\* lines 314-332: every item number found in the response maps to the whole
\* products object
ItemNumbersIn(entries) == {e.itemNumber : e \in Range(entries)} \ {""}

MappingOf(products) ==
    LET keys == ItemNumbersIn(GetList(products, "catalogData"))
                \cup (IF "childData" \in DOMAIN products
                      THEN ItemNumbersIn(GetList(products.childData, "catalogData"))
                      ELSE {})
                \cup ItemNumbersIn(GetList(products, "fulfillmentData"))
    IN  [n \in keys |-> products]

\* r.raise_for_status(): HTTPError for 4xx and 5xx
RaisesForStatus(st) == st >= 400 /\ st < 600

\* one call of the undecorated function: the exception it raises ("" when it
\* returns) and the mapping it returns
FetchOnce(resp) ==
    IF resp.kind = "transport" THEN [raised |-> "ConnectionError", value |-> EmptyDict]
    ELSE IF resp.status # 200 /\ RaisesForStatus(resp.status)
         THEN [raised |-> "HTTPError", value |-> EmptyDict]
    ELSE IF resp.errors THEN [raised |-> "", value |-> EmptyDict]
    ELSE [raised |-> "", value |-> MappingOf(resp.products)]

\* retry_if_exception_type(requests.exceptions.RequestException): ConnectionError,
\* Timeout and HTTPError are all subclasses of RequestException
Retryable(exc) == exc \in {"ConnectionError", "HTTPError"}

\* product_graph_map.update(mapping)
Update(m, mapping) ==
    [n \in DOMAIN m \cup DOMAIN mapping |->
        IF n \in DOMAIN mapping THEN mapping[n] ELSE m[n]]

\* scan_attrs over a list of catalog entries: does a key or value contain phrase
AttrHas(entries, phrase) ==
    \E e \in Range(entries) : \E a \in Range(GetList(e, "attributes")) :
        \/ Contains(lower(strip(Or(Get1(a, "key"), ""))), phrase)
        \/ Contains(lower(strip(Or(Get1(a, "value"), ""))), phrase)

ClassifyOnlineFirst(payload) ==
    LET cats == GetList(payload, "catalogData")
        childcats == IF "childData" \in DOMAIN payload
                     THEN GetList(payload.childData, "catalogData") ELSE <<>>
        online_attr == AttrHas(cats, "online only") \/ AttrHas(childcats, "online only")
        warehouse_attr == AttrHas(cats, "warehouse only")
                          \/ AttrHas(childcats, "warehouse only")
        warehouse_fulfill ==
            \E f \in Range(GetList(payload, "fulfillmentData")) :
                Truthy(Get1(f, "warehouseNumber"))
    IN  IF online_attr THEN "online_only"
        ELSE IF warehouse_attr \/ warehouse_fulfill THEN "warehouse_only"
        ELSE "any"
determine_order_channel_from_catalog_payload(payload) ==
    LET cats == GetList(payload, "catalogData")
        childcats == IF "childData" \in DOMAIN payload
                     THEN GetList(payload.childData, "catalogData") ELSE <<>>
        online_attr == AttrHas(cats, "online only") \/ AttrHas(childcats, "online only")
        warehouse_attr == AttrHas(cats, "warehouse only")
                          \/ AttrHas(childcats, "warehouse only")
        warehouse_fulfill ==
            \E f \in Range(GetList(payload, "fulfillmentData")) :
                \/ Truthy(Get1(f, "warehouseNumber"))
                \/ LET ch == lower(strip(Or(Get1(f, "channel"), "")))
                   IN  Contains(ch, "warehouse") \/ Contains(ch, "store")
                       \/ Contains(ch, "instore")
    IN  IF online_attr /\ (warehouse_attr \/ warehouse_fulfill) THEN "both"
        ELSE IF online_attr THEN "online_only"
        ELSE IF warehouse_attr \/ warehouse_fulfill THEN "warehouse_only"
        ELSE "any"

----------------------------------------------------------------------------
(* normalize_doc_with_enrichment, lines 335-390.  Documents carry scalar   *)
(* fields, so the dict / list branches of the description, images and      *)
(* categoryPath_ss lookups are the scalar ones.                            *)

\* lines 380-387: the order channel from the document alone
DocOnlyChannel(ds) ==
    LET ds_low == lower(Or(ds, ""))
    IN  IF Contains(ds_low, "online only") THEN "online_only"
        ELSE IF Contains(ds_low, "warehouse only") THEN "warehouse_only"
        ELSE "any"

\* lines 350-352 and 369-371
PriceOfSalePrice(d) ==
    LET price_val == Get(d, "item_location_pricing_salePrice",
                         Get(d, "minSalePrice", None))
    IN  IF price_val = "" THEN None ELSE price_val
PriceOf(d) ==
    LET price_val == Get(d, "item_location_pricing_salePrice",
                         Get(d, "minSalePrice", None))
        ds == Get(d, "deliveryStatus", "")
    IN  IF ds = None \/ strip(ds) = "" THEN None
        ELSE IF price_val = "" THEN None
        ELSE price_val

\* lines 373-387
OrderChannelNoFallback(d, pgm) ==
    LET item_number == ItemNumberOf(d)
    IN  IF item_number # "" /\ item_number \in DOMAIN pgm
        THEN determine_order_channel_from_catalog_payload(pgm[item_number])
        ELSE "any"
OrderChannelOf(d, pgm) ==
    LET item_number == ItemNumberOf(d)
    IN  IF item_number # "" /\ item_number \in DOMAIN pgm
        THEN determine_order_channel_from_catalog_payload(pgm[item_number])
        ELSE DocOnlyChannel(Get(d, "deliveryStatus", ""))

normalize_doc_with_enrichment(d, pgm) ==
    [id |-> Get(d, "id", ""),
     item_number |-> ItemNumberOf(d),
     name |-> Or(Get1(d, "item_product_name"), Or(Get1(d, "name"), "")),
     price |-> PriceOf(d),
     listPrice |-> Get(d, "item_location_pricing_listPrice", ""),
     product_pic |-> Or(Get1(d, "item_collateral_primaryimage"),
                        Or(Get1(d, "image"), "")),
     product_description |->
         Or(Get1(d, "description"),
            Or(Get1(d, "item_short_description"),
               Get(d, "item_product_short_description", ""))),
     deliveryStatus |-> Get(d, "deliveryStatus", ""),
     availability |-> Get(d, "item_location_availability", ""),
     review_count |-> Get(d, "item_product_review_count",
                          Get(d, "item_review_count", "")),
     review_ratings |-> Get(d, "item_product_review_ratings",
                            Get(d, "item_review_ratings", Get(d, "item_ratings", ""))),
     categoryPath |-> Or(Get(d, "categoryPath_ss", ""), ""),
     order_channel |-> OrderChannelOf(d, pgm)]

\* line 413: rows = [normalize_doc_with_enrichment(d, product_graph_map) for d in docs]
RowsOfDedup(ds, pgm) ==
    LET first(k) == \A j \in 1..(k - 1) : ds[j] # ds[k]
        kept == SelectSeq([k \in 1..Len(ds) |-> k], first)
    IN  [k \in 1..Len(kept) |-> normalize_doc_with_enrichment(ds[kept[k]], pgm)]
RowsOf(ds, pgm) == [k \in 1..Len(ds) |-> normalize_doc_with_enrichment(ds[k], pgm)]

----------------------------------------------------------------------------
(* The snapshot files and compute_deltas, lines 413-468.  A CSV file is    *)
(* the sequence of its data rows, each a dict from column name to the      *)
(* cell text.                                                              *)

Columns == Range(CSV_FIELDS)

\* DataFrame.to_csv: a missing value (None / NaN) is written as the empty cell
CsvCell(v) == IF v = None THEN "" ELSE v

\* pd.DataFrame(rows, columns=CSV_FIELDS).to_csv(OUT_CSV, index=False)
to_csv(rs) == [k \in 1..Len(rs) |-> [c \in Columns |-> CsvCell(Get1(rs[k], c))]]

\* pd.read_csv(path, dtype=str).fillna(""): the cells read_csv takes for
\* missing values come back as ""
NaCells == {"", "#N/A", "#N/A N/A", "#NA", "-1.#IND", "-1.#QNAN", "-NaN", "-nan",
            "1.#IND", "1.#QNAN", "<NA>", "N/A", "NA", "NULL", "NaN", "None",
            "n/a", "nan", "null"}
ReadCell(c) == IF c \in NaCells THEN "" ELSE c
read_csv(file) == [k \in 1..Len(file) |-> [c \in DOMAIN file[k] |-> ReadCell(file[k][c])]]

\* new_df.fillna("")
fillna(rs) == [k \in 1..Len(rs) |-> [c \in DOMAIN rs[k] |-> CsvCell(rs[k][c])]]

\* ids in sorted() order
IdOrder == <<"", "1", "2", "NA">>
SortedIds(S) == LET in(x) == x \in S IN SelectSeq(IdOrder, in)

\* set(df.index) after set_index("id")
IdsOf(df) == {df[k].id : k \in 1..Len(df)}

\* str({pid: v}): what a cell of df.loc[pid].to_dict() is when the index
\* holds pid more than once
DictRepr(pid, v) == "{'" \o pid \o "': '" \o v \o "'}"

\* df.loc[pid].to_dict() after set_index("id"): for a unique pid the row
\* without its id; for a repeated pid a dict of {pid: value} dicts holding the
\* last row's values
Loc(df, pid) ==
    LET at == {k \in 1..Len(df) : df[k].id = pid}
        last == CHOOSE k \in at : \A j \in at : j <= k
    IN  IF Cardinality(at) = 1
        THEN [c \in Columns \ {"id"} |-> df[last][c]]
        ELSE [c \in Columns \ {"id"} |-> DictRepr(pid, df[last][c])]

\* lines 446-451
DiffsOf(prev_row, new_row) ==
    LET differs(c) == Get(prev_row, c, "") # Get(new_row, c, "")
    IN  [c \in {c \in Columns : differs(c)} |->
            [old |-> Get(prev_row, c, ""), new |-> Get(new_row, c, "")]]

\* the sequence of f(x) for x in seq
RECURSIVE changed_rows_of(_, _, _)
changed_rows_of(common, prev_df, new_df) ==
    IF Len(common) = 0 THEN <<>>
    ELSE LET pid == common[1]
             new_row == Loc(new_df, pid)
             diffs == DiffsOf(Loc(prev_df, pid), new_row)
             rest == changed_rows_of(SubSeq(common, 2, Len(common)), prev_df, new_df)
         IN  IF DOMAIN diffs # {}
             THEN <<[id |-> pid, diffs |-> diffs, name |-> Get(new_row, "name", "")]>> \o rest
             ELSE rest

\* lines 433-454: the three delta sets
Deltas(prev_file, new_rows) ==
    LET prev_df == read_csv(prev_file)
        new_df == fillna(new_rows)
        prev_ids == IdsOf(prev_df)
        new_ids == IdsOf(new_df)
        common == SortedIds(prev_ids \cap new_ids)
    IN  [added_ids |-> SortedIds(new_ids \ prev_ids),
         removed_ids |-> SortedIds(prev_ids \ new_ids),
         changed_rows |-> changed_rows_of(common, prev_df, new_df)]

\* lines 455-466: a non-empty set is written, an empty one deletes its file
DeltaFileAlways(ids, df) == {[k \in 1..Len(ids) |-> Loc(df, ids[k])]}
DeltaFile(ids, df) == IF Len(ids) = 0 THEN {} ELSE {[k \in 1..Len(ids) |-> Loc(df, ids[k])]}

\* lines 426-432: without a previous snapshot the delta files are removed and
\* the snapshot is written once more
NoPreviousKeepsFiles(d, new_rows) == [d EXCEPT !.out = {to_csv(new_rows)}]
NoPrevious(d, new_rows) ==
    [d EXCEPT !.added = {}, !.removed = {}, !.changed = {},
              !.out = {to_csv(new_rows)}]

compute_deltas(d, new_rows) ==
    IF d.prev = {}
    THEN NoPrevious(d, new_rows)
    ELSE LET prev_file == CHOOSE f \in d.prev : TRUE
             r == Deltas(prev_file, new_rows)
         IN  [d EXCEPT !.added = DeltaFile(r.added_ids, fillna(new_rows)),
                       !.removed = DeltaFile(r.removed_ids, read_csv(prev_file)),
                       !.changed = IF Len(r.changed_rows) = 0 THEN {}
                                   ELSE {r.changed_rows}]

\* lines 415-416: if OUT_CSV.exists(): OUT_CSV.rename(PREV_CSV).  The rename
\* is the one of a POSIX file system: an existing PREV_CSV is replaced.
rotateKeepOlder(d) ==
    IF d.out # {} /\ d.prev = {} THEN [d EXCEPT !.prev = d.out, !.out = {}]
    ELSE IF d.out # {} THEN [d EXCEPT !.out = {}]
    ELSE d
rotate(d) == IF d.out # {} THEN [d EXCEPT !.prev = d.out, !.out = {}] ELSE d

\* a write that leaves the file as it was
write_out_nothing(d, rs) == d

\* line 417: df.to_csv(OUT_CSV, index=False)
write_out(d, rs) == [d EXCEPT !.out = {to_csv(rs)}]

\* the file operations the same lines perform, in the order they perform them
rotate_ops(d) == IF d.out # {} THEN <<"rename OUT_CSV PREV_CSV">> ELSE <<>>

\* if p.exists(): p.unlink()
unlink_ops(d, f) == IF d[f] # {} THEN <<"unlink " \o f>> ELSE <<>>

\* lines 455-466: a delta file is written when its set is not empty
delta_ops(d, f, n) == IF n > 0 THEN <<"write " \o f>> ELSE unlink_ops(d, f)

\* lines 426-432 and 455-466
compute_deltas_ops(d, new_rows) ==
    IF d.prev = {}
    THEN unlink_ops(d, "added") \o unlink_ops(d, "removed")
         \o unlink_ops(d, "changed") \o <<"write OUT_CSV">>
    ELSE LET prev_file == CHOOSE f \in d.prev : TRUE
             r == Deltas(prev_file, new_rows)
         IN  delta_ops(d, "added", Len(r.added_ids))
             \o delta_ops(d, "removed", Len(r.removed_ids))
             \o delta_ops(d, "changed", Len(r.changed_rows))

----------------------------------------------------------------------------
(* write_snapshot_csv_enriched (lines 392-419) and the end of run_sync.    *)

EnrichBegin ==
    /\ pc = "enrich"
    /\ UNCHANGED <<csvOps, afterCrash>>
    /\ UNCHANGED toolVars
    /\ UNCHANGED pollVars
    /\ \E ds \in docs :
          /\ unique_item_numbers' = UniqueItemNumbers(ds)
          /\ pc' = IF Len(UniqueItemNumbers(ds)) = 0 THEN "normalize" ELSE "fetch"
    /\ \E b \in 1..MaxBatch : BATCH' = b
    /\ i' = 0
    /\ attempt' = 0
    /\ product_graph_map' = EmptyDict
    /\ fetchLog' = <<>>
    /\ UNCHANGED <<error, disk, disk0, nPaginate, docs, rows>>
    /\ UNCHANGED authVars
    /\ UNCHANGED pageVars

\* what the log keeps of a batch once the loop has moved past it
Closed(e) ==
    IF "retriedAfter" \notin DOMAIN e THEN e
    ELSE [batch |-> e.batch, result |-> e.result, raised |-> e.raised,
          keys |-> e.keys,
          allTransport |-> e.result = "raised"
                           /\ e.retriedAfter \cup {e.raised} = {"ConnectionError"}]

\* one attempt of fetch_products_graphql for the batch at i; the log entry of
\* the batch is opened by its first attempt and closed by its last
FetchAttempt ==
    /\ pc = "fetch"
    /\ UNCHANGED <<csvOps, afterCrash>>
    /\ UNCHANGED toolVars
    /\ UNCHANGED pollVars
    /\ LET batch == BatchAt(unique_item_numbers, i, BATCH)
           n == attempt + 1
           open == IF attempt = 0
                   THEN [batch |-> batch, attempts |-> 0, retriedAfter |-> {},
                         result |-> "pending", status |-> 0, errors |-> FALSE,
                         raised |-> "", keys |-> {}]
                   ELSE fetchLog[Len(fetchLog)]
           earlier == IF attempt = 0
                      THEN [k \in 1..Len(fetchLog) |-> Closed(fetchLog[k])]
                      ELSE SubSeq(fetchLog, 1, Len(fetchLog) - 1)
       IN  \E resp \in EnrichResponses(batch) :
              LET r == FetchOnce(resp)
                  seen == [open EXCEPT !.attempts = n, !.status = resp.status,
                                       !.errors = resp.errors, !.raised = r.raised]
              IN  IF r.raised # "" /\ Retryable(r.raised) /\ n < StopAfterAttempt
                  THEN \* tenacity sleeps and calls again
                       /\ attempt' = n
                       /\ fetchLog' = Append(earlier,
                              [seen EXCEPT !.retriedAfter = @ \cup {r.raised}])
                       /\ pc' = "fetch"
                       /\ UNCHANGED <<i, product_graph_map>>
                  ELSE \* the call returned, or raised into line 409
                       /\ attempt' = 0
                       /\ i' = i + BATCH
                       /\ product_graph_map' =
                              IF r.raised = "" THEN Update(product_graph_map, r.value)
                              ELSE product_graph_map
                       /\ fetchLog' = Append(earlier,
                              [seen EXCEPT !.result = IF r.raised = "" THEN "returned"
                                                      ELSE "raised",
                                           !.keys = DOMAIN r.value])
                       /\ pc' = IF i + BATCH < Len(unique_item_numbers)
                                THEN "fetch" ELSE "normalize"
    /\ UNCHANGED <<error, disk, disk0, nPaginate, docs, BATCH,
                   unique_item_numbers, rows>>
    /\ UNCHANGED authVars
    /\ UNCHANGED pageVars

\* lines 413-414; the loop's locals are not read again
BuildRows ==
    /\ pc = "normalize"
    /\ UNCHANGED <<csvOps, afterCrash>>
    /\ UNCHANGED toolVars
    /\ UNCHANGED pollVars
    /\ \E ds \in docs : rows' = {RowsOf(ds, product_graph_map)}
    /\ fetchLog' = [k \in 1..Len(fetchLog) |-> Closed(fetchLog[k])]
    /\ unique_item_numbers' = <<>>
    /\ BATCH' = 1
    /\ i' = 0
    /\ pc' = "rotate"
    /\ UNCHANGED <<error, disk, disk0, nPaginate, docs, attempt, product_graph_map>>
    /\ UNCHANGED authVars
    /\ UNCHANGED pageVars

\* lines 415-416
RotateSnapshot ==
    /\ pc = "rotate"
    /\ UNCHANGED <<afterCrash, pollVars>>
    /\ UNCHANGED toolVars
    /\ disk' = rotate(disk)
    /\ csvOps' = csvOps \o rotate_ops(disk)
    /\ pc' = "write"
    /\ UNCHANGED <<error, disk0, nPaginate, docs>>
    /\ UNCHANGED authVars
    /\ UNCHANGED pageVars
    /\ UNCHANGED enrichVars

\* lines 417-419: the snapshot is written and the function returns df, its
\* other locals are gone
WriteSnapshot ==
    /\ pc = "write"
    /\ UNCHANGED <<afterCrash, pollVars>>
    /\ UNCHANGED toolVars
    /\ \E rs \in rows : disk' = write_out(disk, rs)
    /\ csvOps' = Append(csvOps, "write OUT_CSV")
    /\ product_graph_map' = EmptyDict
    /\ pc' = "deltas"
    /\ UNCHANGED <<error, disk0, nPaginate, docs>>
    /\ UNCHANGED <<BATCH, unique_item_numbers, i, attempt, fetchLog, rows>>
    /\ UNCHANGED authVars
    /\ UNCHANGED pageVars

\* line 511
ComputeDeltas ==
    /\ pc = "deltas"
    /\ UNCHANGED <<afterCrash, pollVars>>
    /\ UNCHANGED toolVars
    /\ \E rs \in rows : /\ disk' = compute_deltas(disk, rs)
                          /\ csvOps' = csvOps \o compute_deltas_ops(disk, rs)
    /\ pc' = "done"
    /\ UNCHANGED <<error, disk0, nPaginate, docs>>
    /\ UNCHANGED authVars
    /\ UNCHANGED pageVars
    /\ UNCHANGED enrichVars

----------------------------------------------------------------------------
(* The files a run can find: left by earlier complete runs of the program. *)

EmptyDisk == [cookies |-> {}, out |-> {}, prev |-> {}, added |-> {},
              removed |-> {}, changed |-> {}]

\* a complete run over catalog cat with no enrichment data
DiskAfterRun(d, cat) ==
    LET rs == RowsOf(cat, EmptyDict)
    IN  compute_deltas(write_out(rotate(d), rs), rs)

RECURSIVE DiskAfterRuns(_, _)
DiskAfterRuns(d, cats) ==
    IF Len(cats) = 0 THEN d
    ELSE DiskAfterRuns(DiskAfterRun(d, cats[1]), SubSeq(cats, 2, Len(cats)))

\* the catalogs of the earlier runs
PriorHistories ==
    { <<>>,
      << <<DocA, DocB>>, <<DocA2>> >>,
      << <<DocB>>, <<DocA, DocB>> >> }

----------------------------------------------------------------------------


Init ==
    /\ pc = "start"
    /\ ToolsIdle
    /\ csvOps = <<>>
    /\ afterCrash = FALSE
    /\ error = ""
    /\ \E ck \in {{}} \cup {{c} : c \in CookieFileContents}, h \in PriorHistories :
          disk = [DiskAfterRuns(EmptyDisk, h) EXCEPT !.cookies = ck]
    /\ disk0 = disk
    /\ cookies = {}
    /\ cookie_header = {}
    /\ status = {}
    /\ probeLog = <<>>
    /\ nRefresh = 0
    /\ elapsed = 0
    /\ polled = {}
    /\ nPaginate = 0
    /\ catalog = <<>>
    /\ page_rows = 1
    /\ start = 0
    /\ all_docs = <<>>
    /\ num_found = {}
    /\ pageLog = <<>>
    /\ docs = {}
    /\ BATCH = 1
    /\ unique_item_numbers = <<>>
    /\ i = 0
    /\ attempt = 0
    /\ product_graph_map = EmptyDict
    /\ fetchLog = <<>>
    /\ rows = {}

Next ==
    \/ LoadCookies
    \/ Probe
    \/ RefreshBegin
    \/ PollCookies
    \/ RefreshReturns
    \/ RefreshRaises
    \/ Reprobe
    \/ PaginateBegin
    \/ PaginatePage
    \/ PaginateReturn
    \/ EnrichBegin
    \/ FetchAttempt
    \/ BuildRows
    \/ RotateSnapshot
    \/ WriteSnapshot
    \/ ComputeDeltas

Spec == Init /\ [][Next]_vars

\* The probe / refresh protocol alone, under a scheduler that lets the
\* coroutine run: asyncio.run drives refresh_cookies_interactive until it
\* returns or raises, and every await of it (the page load with its 60 s
\* timeout, context.cookies(), asyncio.sleep(2)) comes back.
NextRefresh ==
    \/ LoadCookies
    \/ Probe
    \/ RefreshBegin
    \/ PollCookies
    \/ RefreshReturns
    \/ RefreshRaises
    \/ Reprobe

SpecRefresh ==
    /\ Init
    /\ [][NextRefresh]_vars
    /\ WF_vars(RefreshBegin)
    /\ WF_vars(PollCookies)
    /\ WF_vars(RefreshReturns)

\* cookie_header_from_list over stored lists with entries that lack a name,
\* a value or both: the run up to its first probe, which sends the header
CookieEntries ==
    {[name |-> "a", value |-> "1"], [name |-> "b", value |-> "2"],
     [name |-> "c"], [value |-> "3"], [domain |-> "x"]}

CookieListInputs == SeqsUpTo(CookieEntries, MaxCookies)

InitHeader ==
    /\ pc = "start"
    /\ ToolsIdle
    /\ csvOps = <<>>
    /\ afterCrash = FALSE
    /\ error = ""
    /\ \E cs \in CookieListInputs :
          disk = [EmptyDisk EXCEPT !.cookies = {JsonOf(cs)}]
    /\ disk0 = disk
    /\ cookies = {}
    /\ cookie_header = {}
    /\ status = {}
    /\ probeLog = <<>>
    /\ nRefresh = 0
    /\ elapsed = 0
    /\ polled = {}
    /\ nPaginate = 0
    /\ catalog = <<>>
    /\ page_rows = 1
    /\ start = 0
    /\ all_docs = <<>>
    /\ num_found = {}
    /\ pageLog = <<>>
    /\ docs = {}
    /\ BATCH = 1
    /\ unique_item_numbers = <<>>
    /\ i = 0
    /\ attempt = 0
    /\ product_graph_map = EmptyDict
    /\ fetchLog = <<>>
    /\ rows = {}

NextHeader ==
    \/ LoadCookies
    \/ Probe

SpecHeader == InitHeader /\ [][NextHeader]_vars

----------------------------------------------------------------------------
(* The price-backfill utility: Headers/session, stream_process (lines      *)
(* 211-370).  The input file has the columns id, name, price, which        *)
(* detect_columns (lines 200-209) takes as id_col, name_col and price_col;   *)
(* there is no location column.                                            *)

\* the rows an input file can hold, as stored: a numeric id with and without
\* a price, an id that is no number, a row of blanks, a price that is text
BackfillRows ==
    {[id |-> "7", name |-> "Milk", price |-> ""],
     [id |-> "7", name |-> "Milk", price |-> "5"],
     [id |-> "x", name |-> "Tea", price |-> ""],
     [id |-> "", name |-> "", price |-> " "],
     [id |-> "8", name |-> "Jam", price |-> "NA"],
     [id |-> "8", name |-> "Jam", price |-> "4"]}

BackfillInputs == SeqsUpTo(BackfillRows, MaxRows)

\* str.isdigit(), for the ids of the model
NumericIds == {"7", "8"}
isdigit(sv) == sv \in NumericIds

RETAILER_LOCATION_ID == "1091"

\* line 250: f"items_{retailer_loc}-{pid}"
Token(pid) == "items_" \o RETAILER_LOCATION_ID \o "-" \o pid

\* token.split("-", 1)[1]
PidOfToken(t) == CHOOSE pid \in NumericIds : Token(pid) = t

\* the source urls, by their operation name
ItemsUrl == "Items"
DiscoveryUrl == "DiscoveryDiscoverItems"
SearchUrl == "SearchResultsPlacements"

\* the prices the three lookups hand back
ItemsPrice == "9.99"
DiscoveryPrice == "8.5"
SearchPrice == "7.25"

\* lines 238-241: the next chunk of pd.read_csv(INPUT, chunksize=CHUNKSIZE,
\* dtype=str), after fillna("")
ChunkAt(input, off, size) ==
    LET last == IF off + size < Len(input) THEN off + size ELSE Len(input)
    IN  [k \in 1..(last - off) |->
            [c \in DOMAIN input[off + k] |-> ReadCell(input[off + k][c])]]

\* line 243: the rows of the chunk whose price is blank
missing_idx(chunk) == {k \in 1..Len(chunk) : strip(chunk[k].price) = ""}

\* lines 246-261: a missing row with a numeric id is looked up by token, any
\* other by name
IsTokenRow(row) == strip(row.id) # "" /\ isdigit(strip(row.id))
token_rows(chunk) == {k \in missing_idx(chunk) : IsTokenRow(chunk[k])}
name_fallback_rows(chunk) == missing_idx(chunk) \ token_rows(chunk)
token_row_map(chunk) == {Token(strip(chunk[k].id)) : k \in token_rows(chunk)}
tokens_to_lookup(chunk, c) == token_row_map(chunk) \ DOMAIN c

\* what items_persisted_lookup can give for a batch: an exception, or a
\* price or none per token.  The tokens of a chunk of the model fit one
\* batch of BATCH = 20.
ItemsResponses(toks) ==
    {[raised |-> TRUE, prices |-> [t \in toks |-> None]]}
    \cup {[raised |-> FALSE, prices |-> pr] : pr \in [toks -> {None, ItemsPrice}]}

\* lines 264-276
Step1(c, toks, resp) ==
    [t \in DOMAIN c \cup toks |->
        IF t \in toks
        THEN IF resp.raised THEN [price |-> None, url |-> ""]
             ELSE [price |-> resp.prices[t], url |-> ItemsUrl]
        ELSE c[t]]

\* line 279
tokens_needing_seed(c, chunk) ==
    {t \in DOMAIN c : c[t].price = None /\ t \in token_row_map(chunk)}

\* lines 280-315: prod_map holds the product ids discovery priced (none when
\* it raised), resp the second Items answer
Step2(c, need, prod_map, resp) ==
    [t \in DOMAIN c |->
        IF t \in need
        THEN IF resp.raised THEN [price |-> None, url |-> ""]
             ELSE IF resp.prices[t] # None
                  THEN [price |-> resp.prices[t], url |-> ItemsUrl]
             ELSE IF PidOfToken(t) \in prod_map
                  THEN [price |-> DiscoveryPrice, url |-> DiscoveryUrl]
             ELSE [price |-> None, url |-> ItemsUrl]
        ELSE c[t]]

\* what search_lookup / extract_price_from_search can give for one row: an
\* exception, no price, or a first product id with its price
SearchOutcomes ==
    {[kind |-> "raise", pid |-> ""], [kind |-> "none", pid |-> ""]}
    \cup {[kind |-> "found", pid |-> pid] : pid \in NumericIds}

\* lines 321-324: rows without a name are not searched
Searched(chunk) == {k \in name_fallback_rows(chunk) : strip(chunk[k].name) # ""}
Found(chunk, so) == {k \in Searched(chunk) : so[k].kind = "found"}

\* lines 330-334: the first product of a search is cached under its token
Step3(c, chunk, so) ==
    LET found == {Token(so[k].pid) : k \in Found(chunk, so)}
    IN  [t \in DOMAIN c \cup found |->
            IF t \in found THEN [price |-> SearchPrice, url |-> SearchUrl] ELSE c[t]]

\* lines 336-338 and 350-362: the chunk after the assignments.  The columns
\* price_source and price_source_url come into being with the first
\* assignment to them.
Filled(chunk, c, so) ==
    LET assigned == Found(chunk, so) \cup token_rows(chunk)
        sourced(row, src, url) ==
            IF assigned = {} THEN row
            ELSE [id |-> row.id, name |-> row.name, price |-> row.price,
                  price_source |-> src, price_source_url |-> url]
    IN  [k \in 1..Len(chunk) |->
            IF k \in Found(chunk, so)
            THEN sourced([chunk[k] EXCEPT !.price = SearchPrice],
                         "sameday_search_graphql", SearchUrl)
            ELSE IF k \in token_rows(chunk)
            THEN LET e == c[Token(strip(chunk[k].id))]
                 IN  sourced(IF e.price # None THEN [chunk[k] EXCEPT !.price = e.price]
                             ELSE chunk[k],
                             "sameday_items_graphql", e.url)
            ELSE sourced(chunk[k], "", "")]

\* the report rows of the chunk: those of the name fallback (lines 319-347),
\* then those of the token rows (lines 350-362), each in row order
ReportOf(chunk, filled, off) ==
    LET entry(k) == [row_offset |-> off + (off + k - 1), id |-> chunk[k].id,
                     found |-> filled[k].price # chunk[k].price,
                     price |-> IF filled[k].price # chunk[k].price
                               THEN filled[k].price ELSE ""]
        inFallback(k) == k \in name_fallback_rows(chunk)
        inTokens(k) == k \in token_rows(chunk)
        pos == [k \in 1..Len(chunk) |-> k]
        seqOf(sel) == [j \in 1..Len(sel) |-> entry(sel[j])]
    IN  seqOf(SelectSeq(pos, inFallback)) \o seqOf(SelectSeq(pos, inTokens))

\* lines 212-236: the input is there, the output and the report are started
\* afresh with their header lines
StreamBegin ==
    /\ bpc = "start"
    /\ bpc' = IF INPUT = {} THEN "aborted" ELSE "chunks"
    /\ OUT' = <<>>
    /\ REPORT' = <<>>
    /\ cache' = EmptyDict
    /\ row_offset' = 0
    /\ UNCHANGED <<INPUT, CHUNKSIZE>>
    /\ UNCHANGED scraperVars
    /\ UNCHANGED guiVars

\* lines 238-368: one pass of the loop over the chunks
ProcessChunk ==
    /\ bpc = "chunks"
    /\ \E input \in INPUT :
          /\ row_offset < Len(input)
          /\ LET chunk == ChunkAt(input, row_offset, CHUNKSIZE)
                 toks == tokens_to_lookup(chunk, cache)
             IN  \E r1 \in ItemsResponses(toks) :
                    LET c1 == Step1(cache, toks, r1)
                        need == tokens_needing_seed(c1, chunk)
                    IN  \E prod_map \in SUBSET {PidOfToken(t) : t \in need},
                           r2 \in ItemsResponses(need),
                           so \in [Searched(chunk) -> SearchOutcomes] :
                              LET c2 == Step2(c1, need, prod_map, r2)
                                  c3 == Step3(c2, chunk, so)
                                  filled == Filled(chunk, c3, so)
                              IN  /\ cache' = c3
                                  /\ OUT' = OUT \o filled
                                  /\ REPORT' = REPORT \o ReportOf(chunk, filled, row_offset)
                                  /\ row_offset' = row_offset + Len(chunk)
    /\ UNCHANGED <<bpc, INPUT, CHUNKSIZE>>
    /\ UNCHANGED scraperVars
    /\ UNCHANGED guiVars

\* line 370: the chunks are through
StreamEnd ==
    /\ bpc = "chunks"
    /\ \A input \in INPUT : row_offset >= Len(input)
    /\ bpc' = "done"
    /\ UNCHANGED <<INPUT, CHUNKSIZE, row_offset, cache, OUT, REPORT>>
    /\ UNCHANGED scraperVars
    /\ UNCHANGED guiVars

\* the scraper at rest
ScraperIdle ==
    /\ pc = "start"
    /\ csvOps = <<>>
    /\ afterCrash = FALSE
    /\ error = ""
    /\ disk = EmptyDisk
    /\ disk0 = EmptyDisk
    /\ cookies = {}
    /\ cookie_header = {}
    /\ status = {}
    /\ probeLog = <<>>
    /\ nRefresh = 0
    /\ elapsed = 0
    /\ polled = {}
    /\ nPaginate = 0
    /\ catalog = <<>>
    /\ page_rows = 1
    /\ start = 0
    /\ all_docs = <<>>
    /\ num_found = {}
    /\ pageLog = <<>>
    /\ docs = {}
    /\ BATCH = 1
    /\ unique_item_numbers = <<>>
    /\ i = 0
    /\ attempt = 0
    /\ product_graph_map = EmptyDict
    /\ fetchLog = <<>>
    /\ rows = {}

InitBackfill ==
    /\ ScraperIdle
    /\ GuiIdle
    /\ bpc = "start"
    /\ INPUT \in {{}} \cup {{input} : input \in BackfillInputs}
    /\ CHUNKSIZE \in 1..MaxChunk
    /\ row_offset = 0
    /\ cache = EmptyDict
    /\ OUT = <<>>
    /\ REPORT = <<>>

NextBackfill ==
    \/ StreamBegin
    \/ ProcessChunk
    \/ StreamEnd

SpecBackfill == InitBackfill /\ [][NextBackfill]_vars

----------------------------------------------------------------------------
(* The GUI: costco_gui.py.  The handlers run on the Tk main thread, one at  *)
(* a time; run_batch_scrape runs on the thread start_scrape_thread starts. *)
(* costco_scraper.scrape_warehouse is a call that returns or raises.       *)

\* costco_scraper.get_warehouses()
AllWarehouses ==
    <<[id |-> "110", name |-> "Kirkland"], [id |-> "95", name |-> "Tacoma"]>>

\* what the user types into the search entry
SearchTerms == {"", "1", "tac"}

\* lines 130-133
FilteredBy(search_term) ==
    LET shown(w) == Contains(lower(w.name), search_term) \/ Contains(w.id, search_term)
    IN  SelectSeq(AllWarehouses, shown)

\* line 142: [self.filtered_warehouses[i] for i in selections], selections
\* being listbox.curselection(), the selected rows from top to bottom
Selected(selections) ==
    LET sel(k) == k \in selections
    IN  [j \in 1..Cardinality(selections) |->
            filtered_warehouses[SelectSeq([k \in 1..Len(filtered_warehouses) |-> k], sel)[j]]]

\* line 144: self.scrape_btn.config(state="disabled", ...)
StateWhileScrapingNormal == "normal"
StateWhileScraping == "disabled"

\* a thread that has ended keeps no locals
Exited(raised) ==
    [pc |-> "exited", warehouses |-> <<>>, i |-> 0, scraped |-> <<>>, raised |-> raised]

\* lines 128-134: the trace of search_var
update_list ==
    /\ mainloop
    /\ \E search_term \in SearchTerms : filtered_warehouses' = FilteredBy(search_term)
    /\ UNCHANGED <<mainloop, scrape_btn, threads, after_queue>>
    /\ UNCHANGED scraperVars
    /\ UNCHANGED backfillVars

\* lines 136-148: the command of the scrape button, which Tk does not call
\* while the button is disabled.  Without a selection it warns and returns.
start_scrape_thread ==
    /\ mainloop
    /\ scrape_btn = "normal"
    /\ Len(threads) < MaxThreads
    /\ \E selections \in SUBSET (1..Len(filtered_warehouses)) :
          IF selections = {}
          THEN UNCHANGED <<scrape_btn, threads>>
          ELSE /\ scrape_btn' = StateWhileScraping
               /\ threads' = Append(threads,
                      [pc |-> "scraping", warehouses |-> Selected(selections),
                       i |-> 0, scraped |-> <<>>, raised |-> FALSE])
    /\ UNCHANGED <<mainloop, filtered_warehouses, after_queue>>
    /\ UNCHANGED scraperVars
    /\ UNCHANGED backfillVars

\* lines 153-164: one pass of the loop of thread t; scrape_warehouse returns,
\* raises an Exception, or raises SystemExit, which no except clause takes
WorkerScrape(t) ==
    /\ mainloop
    /\ threads[t].pc = "scraping"
    /\ threads[t].i < Len(threads[t].warehouses)
    /\ \E outcome \in {"returns", "Exception", "SystemExit"} :
          threads' = [threads EXCEPT ![t] =
              IF outcome = "returns"
              THEN [@ EXCEPT !.i = @ + 1,
                             !.scraped = Append(@, threads[t].warehouses[threads[t].i + 1])]
              ELSE [@ EXCEPT !.raised = TRUE,
                             !.pc = IF outcome = "Exception" THEN "except" ELSE "finally"]]
    /\ UNCHANGED <<mainloop, filtered_warehouses, scrape_btn, after_queue>>
    /\ UNCHANGED scraperVars
    /\ UNCHANGED backfillVars

\* lines 166-171: the loop is through, the message is shown and the folder
\* opened, which works or raises
WorkerComplete(t) ==
    /\ mainloop
    /\ threads[t].pc = "scraping"
    /\ threads[t].i = Len(threads[t].warehouses)
    /\ \E opened \in BOOLEAN :
          threads' = [threads EXCEPT ![t] =
              IF opened THEN [@ EXCEPT !.pc = "finally"]
              ELSE [@ EXCEPT !.pc = "except", !.raised = TRUE]]
    /\ UNCHANGED <<mainloop, filtered_warehouses, scrape_btn, after_queue>>
    /\ UNCHANGED scraperVars
    /\ UNCHANGED backfillVars

\* lines 173-175
WorkerExcept(t) ==
    /\ mainloop
    /\ threads[t].pc = "except"
    /\ threads' = [threads EXCEPT ![t].pc = "finally"]
    /\ UNCHANGED <<mainloop, filtered_warehouses, scrape_btn, after_queue>>
    /\ UNCHANGED scraperVars
    /\ UNCHANGED backfillVars

\* lines 176-177: the last statement of the thread hands the re-enabling of
\* the button to the main loop
WorkerFinally(t) ==
    /\ mainloop
    /\ threads[t].pc = "finally"
    /\ after_queue' = Append(after_queue, "enable scrape_btn")
    /\ threads' = [threads EXCEPT ![t].pc = "returned"]
    /\ UNCHANGED <<mainloop, filtered_warehouses, scrape_btn>>
    /\ UNCHANGED scraperVars
    /\ UNCHANGED backfillVars

\* run_batch_scrape has returned: the thread ends
WorkerExit(t) ==
    /\ mainloop
    /\ threads[t].pc = "returned"
    /\ threads' = [threads EXCEPT ![t] = Exited(threads[t].raised)]
    /\ UNCHANGED <<mainloop, filtered_warehouses, scrape_btn, after_queue>>
    /\ UNCHANGED scraperVars
    /\ UNCHANGED backfillVars

\* line 177, on the main thread: the callback of root.after(0, ...)
RunAfter ==
    /\ mainloop
    /\ Len(after_queue) > 0
    /\ scrape_btn' = "normal"
    /\ after_queue' = Tail(after_queue)
    /\ UNCHANGED <<mainloop, filtered_warehouses, threads>>
    /\ UNCHANGED scraperVars
    /\ UNCHANGED backfillVars

\* line 109: the exit button ends the main loop and with it the process, its
\* daemon threads included
Quit ==
    /\ mainloop
    /\ mainloop' = FALSE
    /\ UNCHANGED <<filtered_warehouses, scrape_btn, threads, after_queue>>
    /\ UNCHANGED scraperVars
    /\ UNCHANGED backfillVars

\* lines 181-184 and 26-41
InitGui ==
    /\ ScraperIdle
    /\ BackfillIdle
    /\ mainloop = TRUE
    /\ filtered_warehouses = AllWarehouses
    /\ scrape_btn = "normal"
    /\ threads = <<>>
    /\ after_queue = <<>>

NextGui ==
    \/ update_list
    \/ start_scrape_thread
    \/ \E t \in 1..Len(threads) : WorkerScrape(t)
    \/ \E t \in 1..Len(threads) : WorkerComplete(t)
    \/ \E t \in 1..Len(threads) : WorkerExcept(t)
    \/ \E t \in 1..Len(threads) : WorkerFinally(t)
    \/ \E t \in 1..Len(threads) : WorkerExit(t)
    \/ RunAfter
    \/ Quit

SpecGui == InitGui /\ [][NextGui]_vars

----------------------------------------------------------------------------
(* The normalizer, the classifier and the delta computation over a wider   *)
(* range of inputs: write_snapshot_csv_enriched taken from the end of its  *)
(* batch loop (line 411), once with any documents and any mapping the      *)
(* batches could have returned, once with any documents and any files.     *)

MaxRunDocs == 2

\* the documents paginate_api can have returned
RunDocUniverse ==
    {DocA, DocB, DocA2, DocEmpty, DocNoStatus, DocBlankStatus, DocNaId, DocNaField}

RunCatalogs == SeqsUpTo(RunDocUniverse, MaxRunDocs)

\* what the GraphQL server holds about one item: nothing, an entry with no
\* channel attribute, an entry with an online / warehouse attribute or both, a
\* fulfillment record of the warehouse (alone or with the online attribute),
\* or an entry among the child variants
ItemKinds == {"absent", "plain", "online", "warehouse", "bothattrs", "fulfil",
              "onlinefulfil", "child"}

\* a batch's second item is one of these
OtherItemKinds == {"absent", "plain", "online", "fulfil"}

AttrsOfKind(kind) ==
    CASE kind \in {"online", "onlinefulfil", "child"} -> OnlineAttr
      [] kind = "warehouse" -> WarehouseAttr
      [] kind = "bothattrs" -> OnlineAttr \o WarehouseAttr
      [] OTHER -> <<>>

\* data.products of the response to one batch, the server holding kindOf[n]
\* about item n
ProductsFor(batch, kindOf) ==
    LET top(n) == kindOf[n] \notin {"absent", "child"}
        child(n) == kindOf[n] = "child"
        ful(n) == kindOf[n] \in {"fulfil", "onlinefulfil"}
        tops == SelectSeq(batch, top)
        childs == SelectSeq(batch, child)
        fuls == SelectSeq(batch, ful)
        cat == [catalogData |->
                   [k \in 1..Len(tops) |-> CatEntry(tops[k], AttrsOfKind(kindOf[tops[k]]))],
                fulfillmentData |-> [k \in 1..Len(fuls) |-> WarehouseFulfil(fuls[k])]]
    IN  IF Len(childs) = 0 THEN cat
        ELSE [catalogData |-> cat.catalogData,
              fulfillmentData |-> cat.fulfillmentData,
              childData |->
                  [catalogData |->
                      [k \in 1..Len(childs) |->
                          CatEntry(childs[k], AttrsOfKind(kindOf[childs[k]]))]]]

\* lines 403-410 with every batch answered 200: the map after the loop and
\* what the loop did
RECURSIVE LoopFrom(_, _, _, _)
LoopFrom(u, at, size, kindOf) ==
    IF at >= Len(u) THEN [pgm |-> EmptyDict, log |-> <<>>]
    ELSE LET batch == BatchAt(u, at, size)
             mapping == MappingOf(ProductsFor(batch, kindOf))
             rest == LoopFrom(u, at + size, size, kindOf)
         IN  [pgm |-> Update(mapping, rest.pgm),
              log |-> <<[batch |-> batch, result |-> "returned", raised |-> "",
                         keys |-> DOMAIN mapping, allTransport |-> FALSE]>> \o rest.log]

\* the assignments of server data to the items of u
KindsFor(u) ==
    IF Len(u) = 0 THEN {EmptyDict}
    ELSE {[n \in Range(u) |-> IF n = u[1] THEN k1 ELSE k2] :
             k1 \in ItemKinds, k2 \in OtherItemKinds}

\* the files on disk: left by earlier complete runs, and a directory whose
\* snapshots were removed by hand while a delta file stayed
RunHistories ==
    { <<>>,
      << <<DocA, DocB>> >>,
      << <<DocA, DocB>>, <<DocA2>> >>,
      << <<DocNaId, DocNaField>>, <<DocNaId, DocNaField>> >>,
      << <<DocA, DocA2>> >> }

StaleDeltasDisk ==
    [DiskAfterRuns(EmptyDisk, << <<DocB>>, <<DocA, DocB>> >>)
        EXCEPT !.out = {}, !.prev = {}]

RunDisks == {DiskAfterRuns(EmptyDisk, h) : h \in RunHistories} \cup {StaleDeltasDisk}

\* the server holds nothing about any item of u
NothingFor(u) == [n \in Range(u) |-> "absent"]

\* line 413 is reached: the variables of the earlier stages, and of the loop
\* that ran with batch size b over the items of ds, the server holding kindOf
AfterLoop(ds, b, kindOf) ==
    /\ pc = "normalize"
    /\ ToolsIdle
    /\ csvOps = <<>>
    /\ error = ""
    /\ cookies = {}
    /\ cookie_header = {}
    /\ status = {}
    /\ probeLog = <<>>
    /\ nRefresh = 0
    /\ elapsed = 0
    /\ polled = {}
    /\ nPaginate = 1
    /\ catalog = <<>>
    /\ page_rows = 1
    /\ start = 0
    /\ all_docs = <<>>
    /\ num_found = {}
    /\ pageLog = <<>>
    /\ docs = {ds}
    /\ BATCH = b
    /\ unique_item_numbers = UniqueItemNumbers(ds)
    /\ i = b * CeilDiv(Len(UniqueItemNumbers(ds)), b)
    /\ LET r == LoopFrom(UniqueItemNumbers(ds), 0, b, kindOf)
       IN  /\ product_graph_map = r.pgm
           /\ fetchLog = r.log
    /\ attempt = 0
    /\ rows = {}

\* the normalizer over every document list and every enrichment map, the
\* items requested one by one or in batches of MaxBatch, in a directory
\* without files
InitNormalize ==
    /\ afterCrash = FALSE
    /\ disk = EmptyDisk
    /\ disk0 = disk
    /\ \E ds \in RunCatalogs, b \in {1, MaxBatch} :
          \E kindOf \in KindsFor(UniqueItemNumbers(ds)) : AfterLoop(ds, b, kindOf)

NextNormalize == BuildRows

SpecNormalize == InitNormalize /\ [][NextNormalize]_vars

\* the snapshot writer and compute_deltas over every document list and every
\* disk, the enrichment server holding nothing
InitWriter ==
    /\ afterCrash = FALSE
    /\ disk \in RunDisks
    /\ disk0 = disk
    /\ \E ds \in RunCatalogs :
          AfterLoop(ds, MaxBatch, NothingFor(UniqueItemNumbers(ds)))

NextWriter ==
    \/ BuildRows
    \/ RotateSnapshot
    \/ WriteSnapshot
    \/ ComputeDeltas

SpecWriter == InitWriter /\ [][NextWriter]_vars

\* The process is killed between the return of write_snapshot_csv_enriched
\* (line 510) and compute_deltas (line 511), and the program is started again
\* later, over other documents, on the files the killed run left.
CrashCatalogs == {<<>>, <<DocA>>, <<DocA2>>, <<DocA, DocB>>}

InitCrash ==
    /\ afterCrash = FALSE
    /\ disk \in RunDisks
    /\ disk0 = disk
    /\ \E ds \in CrashCatalogs :
          AfterLoop(ds, MaxBatch, NothingFor(UniqueItemNumbers(ds)))

\* the kill: nothing of the process is left, the files stay as they are
Crash ==
    /\ pc = "deltas"
    /\ pc' = "crashed"
    /\ UNCHANGED <<csvOps, afterCrash, error, disk, disk0, nPaginate, docs>>
    /\ UNCHANGED pollVars
    /\ UNCHANGED toolVars
    /\ UNCHANGED authVars
    /\ UNCHANGED pageVars
    /\ UNCHANGED enrichVars

\* the later run, taken from line 413 like the first
RunAgain ==
    /\ pc = "crashed"
    /\ afterCrash' = TRUE
    /\ disk' = disk
    /\ disk0' = disk
    /\ csvOps' = <<>>
    /\ \E ds \in CrashCatalogs :
          LET u == UniqueItemNumbers(ds)
              r == LoopFrom(u, 0, MaxBatch, NothingFor(u))
          IN  /\ docs' = {ds}
              /\ BATCH' = MaxBatch
              /\ unique_item_numbers' = u
              /\ i' = MaxBatch * CeilDiv(Len(u), MaxBatch)
              /\ product_graph_map' = r.pgm
              /\ fetchLog' = r.log
    /\ attempt' = 0
    /\ rows' = {}
    /\ pc' = "normalize"
    /\ UNCHANGED <<error, nPaginate>>
    /\ UNCHANGED authVars
    /\ UNCHANGED pollVars
    /\ UNCHANGED pageVars
    /\ UNCHANGED toolVars

NextCrash ==
    \/ BuildRows
    \/ RotateSnapshot
    \/ WriteSnapshot
    \/ ComputeDeltas
    \/ Crash
    \/ RunAgain

SpecCrash == InitCrash /\ [][NextCrash]_vars

----------------------------------------------------------------------------
(* Properties of the probe / refresh protocol.                             *)

\* the probe stage of run_sync is over
AuthOver == pc = "paginate" \/ (pc = "aborted" /\ error \in {ErrRefresh, ErrAuth})

FirstProbeFailed == Len(probeLog) >= 1 /\ probeLog[1].status # {200}

\* C1, as stated: whenever the first probe is not 200 (a transport failure
\* included), the refresh runs exactly once and the probe is re-issued exactly
\* once with the refreshed credentials; a second non-200 aborts with the
\* authorization error; there is never a third probe or a second refresh.
C1_AsStated ==
    /\ nRefresh <= 1
    /\ Len(probeLog) <= 2
    /\ (AuthOver /\ FirstProbeFailed) =>
          /\ nRefresh = 1
          /\ Len(probeLog) = 2
          /\ probeLog[2].header = HeaderOf(cookies)
          /\ (probeLog[2].status # {200} => pc = "aborted" /\ error = ErrAuth)

\* C1, amended: the probe is re-issued (exactly once, with the refreshed
\* credentials) when the refresh returns; when the refresh itself raises, the
\* run aborts with the cookie-refresh error and no second probe is issued. In
\* every case: at most one refresh, at most two probes, and a second non-200
\* probe aborts with the authorization error.
C1_RefreshOnceReprobeOnce ==
    /\ nRefresh <= 1
    /\ Len(probeLog) <= 2
    /\ (AuthOver /\ FirstProbeFailed) =>
          /\ nRefresh = 1
          /\ IF error = ErrRefresh
             THEN Len(probeLog) = 1 /\ pc = "aborted"
             ELSE /\ Len(probeLog) = 2
                  /\ cookies \in {{cs} : cs \in BrowserCookieLists}
                  /\ probeLog[2].header = HeaderOf(cookies)
                  /\ (probeLog[2].status # {200} => pc = "aborted" /\ error = ErrAuth)
                  /\ (probeLog[2].status = {200} => pc = "paginate" /\ error = "")
    /\ (AuthOver /\ ~FirstProbeFailed) => (nRefresh = 0 /\ Len(probeLog) = 1)
    /\ (pc \in {"refresh", "reprobe"}) => FirstProbeFailed

\* the second probe, sent with the refreshed cookies, failed too
C1_Witness ==
    /\ pc = "aborted"
    /\ error = ErrAuth
    /\ Len(probeLog) = 2
    /\ probeLog[1].status = {}
    /\ probeLog[2].header = {cookie_header_from_list(NewCookies)}
    /\ nRefresh = 1

----------------------------------------------------------------------------
(* Properties of paginate_api.                                             *)

WriterStages == {"enrich", "fetch", "normalize", "rotate", "write", "deltas", "done"}

\* C2, as stated: an empty first page is answered by one reactive refresh and
\* one retry of pagination, so the empty result of a single paginate_api call
\* is never taken as the catalogue and handed to the snapshot writer.
C2_EmptyFirstPageRetried ==
    (pc \in WriterStages /\ docs = {<<>>}) => nPaginate = 2

\* the declared total, when the first response carried one
DeclaredOnFirst == IF Len(pageLog) >= 1 THEN pageLog[1].num_found ELSE {}

RECURSIVE ConcatPages(_, _)
ConcatPages(log, k) == IF k = 0 THEN <<>> ELSE ConcatPages(log, k - 1) \o log[k].docs

\* one of the three stop conditions holds after the k-th logged page
StopsAt(k) ==
    LET e == pageLog[k]
        accumulated == Len(ConcatPages(pageLog, k))
    IN  \/ Len(e.docs) = 0
        \/ \E T \in e.num_found : accumulated >= T
        \/ Len(e.docs) < page_rows

C4_Pages ==
    (pc \in {"page", "paginated"}) =>
        /\ \A k \in 1..Len(pageLog) :
              /\ pageLog[k].start = (k - 1) * page_rows
              /\ (k < Len(pageLog) => ~StopsAt(k))
        /\ (pc = "page" /\ Len(pageLog) >= 1) => ~StopsAt(Len(pageLog))
        /\ (pc = "page") => start = Len(pageLog) * page_rows
        /\ (pc = "paginated") => (Len(pageLog) >= 1 /\ StopsAt(Len(pageLog)))
        /\ all_docs = ConcatPages(pageLog, Len(pageLog))

\* C4: paginate_api stops right after the first page that is empty, or brings
\* the accumulated count to the declared total, or is shorter than the page
\* size; otherwise it asks for the page at offset + page size; and it returns
\* the in-order concatenation of the pages it fetched.
C4_StopsAndConcatenates ==
    /\ []C4_Pages
    /\ [][pc = "paginated" => docs' = {ConcatPages(pageLog, Len(pageLog))}]_vars

\* two pages were fetched and the second one reached the declared total
C4_Witness ==
    /\ pc = "paginated"
    /\ Len(pageLog) = 2
    /\ Len(pageLog[2].docs) = page_rows
    /\ pageLog[2].num_found = {Len(all_docs)}
    /\ all_docs = catalog

\* C5: a 401 page raises the 'unauthorized' error, any other non-200 status a
\* different error that carries the status; the failed page is the last
\* request of the call (no retry, no further page) and the documents of the
\* earlier pages are not returned.
C5_PageErrorAborts ==
    \A k \in 1..Len(pageLog) :
        LET e == pageLog[k]
        IN  /\ (e.status = {401} => e.error = Err401)
            /\ \A st \in e.status :
                  (st # 200 /\ st # 401) => (e.error = ErrHttp(st) /\ e.error # Err401)
            /\ (e.status \notin {{200}, {}}) =>
                  /\ k = Len(pageLog)
                  /\ pc = "aborted"
                  /\ error = e.error
                  /\ docs = {}
            /\ \A j \in 1..(k - 1) : pageLog[j].start < e.start

\* a 401 on a later page: the documents already accumulated are dropped
C5_Witness ==
    /\ pc = "aborted"
    /\ error = Err401
    /\ Len(pageLog) = 2
    /\ Len(all_docs) >= 1
    /\ docs = {}

----------------------------------------------------------------------------
(* Properties of the run as a whole.                                       *)

\* the snapshot files and the three delta files
Csv(d) == [out |-> d.out, prev |-> d.prev, added |-> d.added,
           removed |-> d.removed, changed |-> d.changed]

\* C6: a run that ended with an error (authorization still failing after the
\* refresh, or an error raised by pagination) has stopped before enrichment
\* and before the snapshot writer, and the current snapshot, the previous
\* snapshot and the three delta files are as they were when the run started.
C6_AbortLeavesFiles ==
    (error # "" \/ pc = "aborted") =>
        /\ pc = "aborted"
        /\ error # ""
        /\ Csv(disk) = Csv(disk0)
        /\ fetchLog = <<>>
        /\ rows = {}

\* pagination failed on a disk that holds both snapshots and delta files
C6_Witness ==
    /\ pc = "aborted"
    /\ error = ErrHttp(500)
    /\ disk.out # {}
    /\ disk.prev # {}
    /\ disk.removed # {}
    /\ Csv(disk) = Csv(disk0)

----------------------------------------------------------------------------
(* Properties of the enrichment stage.                                     *)

\* the log entries that still carry their attempts (the batch being fetched
\* or just closed)
FullEntries == {k \in 1..Len(fetchLog) : "retriedAfter" \in DOMAIN fetchLog[k]}

\* C7, as stated: a batch is attempted at most 3 times and a further attempt
\* follows only a transport failure, never a response with a non-200 status
\* or a 200 response with errors.
C7_RetryOnlyOnTransport ==
    \A k \in FullEntries :
        /\ fetchLog[k].attempts <= StopAfterAttempt
        /\ fetchLog[k].retriedAfter \subseteq {"ConnectionError"}

\* C8, as stated: a batch whose response has a non-200 status, or carries
\* application-level errors, yields an empty mapping and does not raise.
C8_ErrorResponseYieldsEmpty ==
    \A k \in FullEntries :
        LET e == fetchLog[k]
        IN  (e.result # "pending" /\ e.status # 0 /\ (e.status # 200 \/ e.errors)) =>
                (e.result = "returned" /\ e.keys = {})

\* the batches requested so far, in order
RECURSIVE ConcatBatches(_, _)
ConcatBatches(log, k) == IF k = 0 THEN <<>> ELSE ConcatBatches(log, k - 1) \o log[k].batch

RowsBuilt == pc \in {"rotate", "write", "deltas", "done"}

\* entry e is a batch whose every attempt failed with a transport error
FailedByTransport(e) ==
    IF "retriedAfter" \in DOMAIN e
    THEN e.result = "raised" /\ e.retriedAfter \cup {e.raised} = {"ConnectionError"}
    ELSE e.allTransport

\* C9: a batch whose every attempt fails with a transport error does not end
\* the run: every batch is still requested, the mappings of the other batches
\* stay in product_graph_map, the snapshot and the deltas are written, and the
\* rows of the failed batch's items carry the document-only order_channel.
C9_TransportFailureContained ==
    (\E k \in 1..Len(fetchLog) : FailedByTransport(fetchLog[k])) =>
        /\ error = "" /\ pc # "aborted"
        /\ (pc = "normalize" \/ RowsBuilt) =>
              \A ds \in docs :
                  ConcatBatches(fetchLog, Len(fetchLog)) = UniqueItemNumbers(ds)
        /\ (pc = "normalize") =>
              DOMAIN product_graph_map =
                  UNION {fetchLog[k].keys : k \in {j \in 1..Len(fetchLog) :
                                                      fetchLog[j].result = "returned"}}
        /\ RowsBuilt =>
              \A ds \in docs, rs \in rows :
                  /\ Len(rs) = Len(ds)
                  /\ \A k \in 1..Len(ds), j \in 1..Len(fetchLog) :
                        (FailedByTransport(fetchLog[j])
                         /\ ItemNumberOf(ds[k]) \in Range(fetchLog[j].batch)) =>
                            rs[k].order_channel =
                                DocOnlyChannel(Get(ds[k], "deliveryStatus", ""))
        /\ (pc \in {"deltas", "done"}) => \A rs \in rows : disk.out = {to_csv(rs)}
        /\ (pc = "done" /\ disk.prev # {}) =>
              \A rs \in rows, f \in disk.prev :
                  (disk.added = {}) = (Deltas(f, rs).added_ids = <<>>)

\* the first batch failed on every attempt, the second was fetched, and the
\* run finished with the failed item classified from its document
C9_Witness ==
    /\ pc = "done"
    /\ Len(fetchLog) = 2
    /\ FailedByTransport(fetchLog[1])
    /\ fetchLog[2].result = "returned"
    /\ fetchLog[2].keys # {}
    /\ \E rs \in rows : \E k \in 1..Len(rs) :
          rs[k].item_number = "A" /\ rs[k].order_channel = "online_only"
    /\ disk.out # {}

----------------------------------------------------------------------------
(* Properties of the normalizer and the snapshot.                          *)

\* C10: every document, whatever it lacks, becomes exactly one record whose
\* keys are exactly CSV_FIELDS, a missing value being "" or None; the snapshot
\* holds one row per document of pagination, in document order, duplicates
\* included.
C10_OneRowPerDocument ==
    /\ RowsBuilt =>
          \A ds \in docs, rs \in rows :
              /\ Len(rs) = Len(ds)
              /\ \A k \in 1..Len(ds) :
                    /\ DOMAIN rs[k] = Range(CSV_FIELDS)
                    /\ rs[k].id = Get(ds[k], "id", "")
                    /\ rs[k].item_number = ItemNumberOf(ds[k])
                    /\ rs[k].deliveryStatus = Get(ds[k], "deliveryStatus", "")
                    /\ (DOMAIN ds[k] = {}) =>
                          \A c \in Range(CSV_FIELDS) \ {"order_channel"} :
                              rs[k][c] \in {"", None}
    /\ (pc \in {"deltas", "done"}) =>
          \A ds \in docs, f \in disk.out :
              /\ Len(f) = Len(ds)
              /\ \A k \in 1..Len(ds) :
                    /\ DOMAIN f[k] = Range(CSV_FIELDS)
                    /\ f[k].id = CsvCell(Get(ds[k], "id", ""))
                    /\ f[k].item_number = ItemNumberOf(ds[k])

\* the same document came back twice and an empty document... each has its row
C10_Witness ==
    /\ pc = "done"
    /\ \E ds \in docs, f \in disk.out :
          /\ Len(ds) = 2
          /\ ds[1] = ds[2]
          /\ DOMAIN ds[1] = {}
          /\ Len(f) = 2

----------------------------------------------------------------------------
(* Properties of the normalized record's price.                            *)

\* a deliveryStatus that is absent (or null), empty or only blanks
BlankStatus(d) ==
    LET v == Get(d, "deliveryStatus", "")
    IN  v = None \/ \A j \in 1..Len(v) : SubSeq(v, j, j) = " "

\* the document's sale-price field, None when it has none
SalePriceField(d) ==
    Get(d, "item_location_pricing_salePrice", Get(d, "minSalePrice", None))

\* C11: a document whose deliveryStatus is absent, empty or whitespace-only
\* gets the absent marker as its price, whatever its sale price and whatever
\* the enrichment map holds for its item.
C11_BlankStatusNoPrice ==
    RowsBuilt =>
        \A ds \in docs, rs \in rows :
            \A k \in 1..Len(ds) :
                BlankStatus(ds[k]) => (Len(rs) >= k /\ rs[k].price = None)

\* a priced document without deliveryStatus, its item enriched with a price
C11_Witness ==
    /\ pc = "rotate"
    /\ docs = {<<DocNoStatus, DocB>>}
    /\ "B" \in DOMAIN product_graph_map
    /\ Len(product_graph_map["B"].catalogData) >= 1
    /\ \E rs \in rows : rs[1].price = None /\ rs[2].price = None

\* the rows are built and the map they were built from is still held
RowsFromMap == pc \in {"rotate", "write"}

\* the first price in the payload the map holds for item n, None without one
FirstPayloadPrice(pgm, n) ==
    IF n = "" \/ n \notin DOMAIN pgm THEN None
    ELSE LET cats == GetList(pgm[n], "catalogData")
             childcats == IF "childData" \in DOMAIN pgm[n]
                          THEN GetList(pgm[n].childData, "catalogData") ELSE <<>>
             all == cats \o childcats
         IN  IF Len(all) = 0 THEN None ELSE all[1].priceData.price

\* C12, as stated: with a non-empty deliveryStatus the record's price is the
\* document's sale-price field when that is non-empty, and otherwise the first
\* price found in the item's enrichment payload.
C12_PriceFallsBackToPayload ==
    RowsFromMap =>
        \A ds \in docs, rs \in rows :
            \A k \in 1..Len(ds) :
                ~BlankStatus(ds[k]) =>
                    rs[k].price =
                        IF SalePriceField(ds[k]) \notin {"", None}
                        THEN SalePriceField(ds[k])
                        ELSE FirstPayloadPrice(product_graph_map, ItemNumberOf(ds[k]))

----------------------------------------------------------------------------
(* Properties of order_channel.                                            *)

\* the attribute records of every catalog entry of a payload, child variants
\* included
AttributesOf(p) ==
    LET cats == GetList(p, "catalogData")
        childcats == IF "childData" \in DOMAIN p
                     THEN GetList(p.childData, "catalogData") ELSE <<>>
    IN  UNION {Range(e.attributes) : e \in Range(cats) \cup Range(childcats)}

\* some attribute key or value of the payload reads phrase, in any case
PhraseInPayload(p, phrase) ==
    \E a \in AttributesOf(p) :
        Contains(lower(a.key), phrase) \/ Contains(lower(a.value), phrase)

\* the document's deliveryStatus reads phrase, in any case
PhraseInDoc(d, phrase) ==
    LET v == Get(d, "deliveryStatus", "")
    IN  v # None /\ Contains(lower(v), phrase)

\* the payload the map holds for the document's item, if any
PayloadOf(d, pgm) ==
    IF ItemNumberOf(d) # "" /\ ItemNumberOf(d) \in DOMAIN pgm
    THEN {pgm[ItemNumberOf(d)]} ELSE {}

\* no 'online only' / 'warehouse only' text in the document or in its payload
\* (the payloads carry no program-type tags)
NoChannelPhrase(d, pgm) ==
    \A phrase \in {"online only", "warehouse only"} :
        /\ ~PhraseInDoc(d, phrase)
        /\ \A p \in PayloadOf(d, pgm) : ~PhraseInPayload(p, phrase)

\* C13, as stated: a document and payload with no 'online only' /
\* 'warehouse only' signal and no program-type tag anywhere give the
\* order_channel 'any'.
C13_NoSignalIsAny ==
    RowsFromMap =>
        \A ds \in docs, rs \in rows :
            \A k \in 1..Len(ds) :
                NoChannelPhrase(ds[k], product_graph_map) => rs[k].order_channel = "any"

\* the channel the badge text of the document names
BadgeChannel(d) ==
    IF PhraseInDoc(d, "online only") THEN "online_only"
    ELSE IF PhraseInDoc(d, "warehouse only") THEN "warehouse_only"
    ELSE "any"

\* C14, as stated: when the item has a payload and the payload classifies as
\* 'any', the record's order_channel is the one the badge text of the
\* document names.
C14_InconclusivePayloadFallsBack ==
    RowsFromMap =>
        \A ds \in docs, rs \in rows :
            \A k \in 1..Len(ds) :
                \A p \in PayloadOf(ds[k], product_graph_map) :
                    determine_order_channel_from_catalog_payload(p) = "any"
                        => rs[k].order_channel = BadgeChannel(ds[k])

\* the payload has an explicit online-only signal
OnlineSignal(p) == PhraseInPayload(p, "online only")

\* the payload has a warehouse signal: a 'warehouse only' attribute or a
\* fulfillment record of a warehouse
WarehouseSignal(p) ==
    \/ PhraseInPayload(p, "warehouse only")
    \/ \E f \in Range(GetList(p, "fulfillmentData")) :
          "warehouseNumber" \in DOMAIN f /\ f.warehouseNumber \notin {"", None}

\* C15: a payload with both an online-only signal and a warehouse signal is
\* classified 'both', never 'online_only' or 'warehouse_only'; 'online_only'
\* is returned only without a warehouse signal and 'warehouse_only' only
\* without an online signal.
C15_BothSignalsCombined ==
    RowsFromMap =>
        \A ds \in docs, rs \in rows :
            \A k \in 1..Len(ds) :
                \A p \in PayloadOf(ds[k], product_graph_map) :
                    LET ch == rs[k].order_channel
                        online == OnlineSignal(p)
                        warehouse == WarehouseSignal(p)
                    IN  /\ (online /\ warehouse) => ch = "both"
                        /\ ch = "both" => (online /\ warehouse)
                        /\ ch = "online_only" => (online /\ ~warehouse)
                        /\ ch = "warehouse_only" => (warehouse /\ ~online)

\* one item's payload has both attributes and its row reads 'both'; the
\* other's has the online attribute alone and its row reads 'online_only'
C15_Witness ==
    /\ pc = "rotate"
    /\ \E ds \in docs, rs \in rows :
          /\ Len(ds) = 2
          /\ rs[1].order_channel = "both"
          /\ rs[2].order_channel = "online_only"
          /\ \E p \in PayloadOf(ds[1], product_graph_map) :
                PhraseInPayload(p, "online only") /\ PhraseInPayload(p, "warehouse only")
          /\ \E p \in PayloadOf(ds[2], product_graph_map) :
                PhraseInPayload(p, "online only") /\ ~WarehouseSignal(p)

\* what payload p says about item n itself: the entries that carry its number
OwnData(p, n) ==
    LET own(e) == e.itemNumber = n
        top == [catalogData |-> SelectSeq(GetList(p, "catalogData"), own),
                fulfillmentData |-> SelectSeq(GetList(p, "fulfillmentData"), own)]
    IN  IF "childData" \notin DOMAIN p THEN top
        ELSE [catalogData |-> top.catalogData,
              fulfillmentData |-> top.fulfillmentData,
              childData |->
                  [catalogData |-> SelectSeq(GetList(p.childData, "catalogData"), own)]]

\* the map with every payload cut down to its item's own data: what the
\* batches would have returned had each item been requested alone
OwnDataMap(pgm) == [n \in DOMAIN pgm |-> OwnData(pgm[n], n)]

\* C16, as stated: an item's order_channel is determined by its document and
\* its own enrichment data, so it is the same as if the item had been
\* requested alone, whatever else was in its batch.
C16_OwnDataOnly ==
    RowsFromMap =>
        \A ds \in docs, rs \in rows :
            \A k \in 1..Len(ds) :
                rs[k].order_channel = OrderChannelOf(ds[k], OwnDataMap(product_graph_map))

----------------------------------------------------------------------------
(* Properties of the snapshot files and the deltas.                        *)

\* the snapshot writer has written its snapshot
SnapshotWritten == pc \in {"deltas", "done"}

\* C17: once a run has written its snapshot there is exactly one current
\* snapshot, the one of this run, and at most one previous snapshot; when the
\* run found a current snapshot (every run after the first does), the previous
\* snapshot is exactly that file, whatever older previous snapshot there was.
C17_PreviousIsRotatedCurrent ==
    /\ Cardinality(disk.out) <= 1
    /\ Cardinality(disk.prev) <= 1
    /\ SnapshotWritten =>
          /\ \A rs \in rows : disk.out = {to_csv(rs)}
          /\ disk0.out # {} => disk.prev = disk0.out
          /\ disk0.out = {} => disk.prev = disk0.prev

\* the third run: the snapshot of the first run is gone, the one of the second
\* run is the previous snapshot
C17_Witness ==
    /\ pc = "done"
    /\ disk0.prev # {}
    /\ disk0.out # {}
    /\ disk0.prev # disk0.out
    /\ disk.prev = disk0.out
    /\ disk.out # disk0.out
    /\ Cardinality(disk.out) = 1

\* C18: without a previous snapshot compute_deltas completes, reports
\* nothing added, removed or changed, and leaves none of the three delta files
\* on disk, those of earlier runs included.
C18_FirstRunNoDeltas ==
    /\ (pc = "deltas" /\ disk.prev = {}) => ENABLED ComputeDeltas
    /\ (pc = "done" /\ disk.prev = {}) =>
          /\ error = ""
          /\ disk.added = {}
          /\ disk.removed = {}
          /\ disk.changed = {}
          /\ \A rs \in rows : disk.out = {to_csv(rs)}

\* a run without snapshots on a disk that held a delta file
C18_Witness ==
    /\ pc = "done"
    /\ disk.prev = {}
    /\ disk0.added # {}
    /\ disk.added = {}
    /\ \E rs \in rows : Len(rs) >= 1

\* the ids a snapshot file holds, as they are stored in it
StoredIds(file) == {file[k].id : k \in 1..Len(file)}

\* compute_deltas has run against a previous snapshot
DeltasComputed == pc = "done" /\ disk.prev # {}

\* C19, as stated: the added set is exactly the ids of the current snapshot
\* that the previous snapshot does not hold, the removed set exactly the ids
\* of the previous snapshot that the current one does not hold, an id being
\* the same id in both files when it is stored the same.
C19_AddedRemovedAreSetDifferences ==
    DeltasComputed =>
        \A cur \in disk.out, prv \in disk.prev, rs \in rows :
            LET added == StoredIds(cur) \ StoredIds(prv)
                removed == StoredIds(prv) \ StoredIds(cur)
                r == Deltas(prv, rs)
            IN  /\ Range(r.added_ids) = added
                /\ Range(r.removed_ids) = removed
                /\ (disk.added = {}) = (added = {})
                /\ (disk.removed = {}) = (removed = {})
                /\ \A f \in disk.added : Len(f) = Cardinality(added)
                /\ \A f \in disk.removed : Len(f) = Cardinality(removed)

\* the ids that a snapshot file holds exactly one record for
SingleIds(file) ==
    {id \in StoredIds(file) : Cardinality({k \in 1..Len(file) : file[k].id = id}) = 1}

\* the record a snapshot file holds for id
RecordOf(file, id) == file[CHOOSE k \in 1..Len(file) : file[k].id = id]

\* the entries of the changed set, as written to the changed file
ChangedEntries == UNION {Range(f) : f \in disk.changed}

\* C20, as stated: an id of both snapshots (with one record in each) is in the
\* changed set exactly when some output field of its two records differs as
\* strings, and its diff map then holds exactly the differing fields with
\* old = the previous value and new = the current value.
C20_ChangedIffFieldDiffers ==
    DeltasComputed =>
        \A cur \in disk.out, prv \in disk.prev :
            \A id \in SingleIds(cur) \cap SingleIds(prv) :
                LET old == RecordOf(prv, id)
                    new == RecordOf(cur, id)
                    differing == {c \in Columns : old[c] # new[c]}
                    entries == {e \in ChangedEntries : e.id = id}
                IN  /\ (entries # {}) = (differing # {})
                    /\ \A e \in entries :
                          /\ DOMAIN e.diffs = differing
                          /\ \A c \in differing :
                                e.diffs[c] = [old |-> old[c], new |-> new[c]]

\* C21, as stated: a run whose record set is the previous snapshot itself,
\* as the snapshot writer wrote it, computes an empty added set, an empty
\* removed set and an empty changed set.
C21_DeltaOfSameSnapshotIsEmpty ==
    (DeltasComputed /\ disk.prev = disk.out) =>
        /\ disk.added = {}
        /\ disk.removed = {}
        /\ disk.changed = {}
        /\ \A prv \in disk.prev, rs \in rows :
              LET r == Deltas(prv, rs)
              IN  r.added_ids = <<>> /\ r.removed_ids = <<>> /\ r.changed_rows = <<>>

\* C22: when compute_deltas has completed, each of the added, removed and
\* changed files exists exactly when its set is non-empty, whatever delta
\* files the run found on disk.
C22_DeltaFileIffNonEmpty ==
    (pc = "done") =>
        /\ disk.prev = {} => (disk.added = {} /\ disk.removed = {} /\ disk.changed = {})
        /\ \A prv \in disk.prev, rs \in rows :
              LET r == Deltas(prv, rs)
              IN  /\ (disk.added # {}) = (r.added_ids # <<>>)
                  /\ (disk.removed # {}) = (r.removed_ids # <<>>)
                  /\ (disk.changed # {}) = (r.changed_rows # <<>>)
                  /\ \A f \in disk.added : Len(f) = Len(r.added_ids)
                  /\ \A f \in disk.removed : Len(f) = Len(r.removed_ids)
                  /\ \A f \in disk.changed : f = r.changed_rows

\* the removed and changed files of the run before are gone, an added file
\* has appeared
C22_Witness ==
    /\ pc = "done"
    /\ disk.prev # {}
    /\ disk0.removed # {} /\ disk.removed = {}
    /\ disk0.changed # {} /\ disk.changed = {}
    /\ disk0.added = {} /\ disk.added # {}

\* C23, as stated: reading the written snapshot back gives, for every record
\* and every field, the value of the in-memory record that was written, both
\* taken as strings (a missing value as the empty string).
C23_SnapshotRoundTrip ==
    SnapshotWritten =>
        \A f \in disk.out, rs \in rows :
            /\ Len(read_csv(f)) = Len(rs)
            /\ \A k \in 1..Len(rs) : \A c \in Columns :
                  read_csv(f)[k][c] = fillna(rs)[k][c]


----------------------------------------------------------------------------
(* C24: every distinct non-empty item identifier of the documents is sent  *)
(* in exactly one batch.                                                   *)

\* the non-empty item identifiers of the documents
ItemIdsOf(ds) == {ItemNumberOf(ds[k]) : k \in 1..Len(ds)} \ {""}

\* the place of an identifier in the sort order
RECURSIVE ItemRank(_, _)
ItemRank(n, k) == IF ItemOrder[k] = n THEN k ELSE ItemRank(n, k + 1)

StrictlySorted(u) ==
    \A a, b \in 1..Len(u) : a < b => ItemRank(u[a], 1) < ItemRank(u[b], 1)

\* C24: while the enrichment loop runs, the batches requested so far, one log
\* entry (one call of fetch_products_graphql) per batch, are consecutive
\* slices of a strictly sorted list of identifiers of the documents, each of
\* at most BATCH and all but the last of exactly BATCH identifiers; when the
\* loop is over they cover exactly the distinct non-empty identifiers of the
\* documents, in ceil(n / BATCH) calls.
C24_EachItemInExactlyOneBatch ==
    (pc \in {"fetch", "normalize"}) =>
        \A ds \in docs :
            LET sent == ConcatBatches(fetchLog, Len(fetchLog))
            IN  /\ StrictlySorted(sent)
                /\ Range(sent) \subseteq ItemIdsOf(ds)
                /\ \A k \in 1..Len(fetchLog) :
                      /\ Len(fetchLog[k].batch) \in 1..BATCH
                      /\ (k < Len(fetchLog)) => Len(fetchLog[k].batch) = BATCH
                /\ (pc = "normalize") =>
                      /\ Range(sent) = ItemIdsOf(ds)
                      /\ Len(fetchLog) = CeilDiv(Cardinality(ItemIdsOf(ds)), BATCH)

\* two documents and a repeated identifier apart, two batches of one, the
\* second sent three times over by the retry policy yet one call
C24_Witness ==
    /\ pc = "normalize"
    /\ BATCH = 1
    /\ Len(fetchLog) = 2
    /\ fetchLog[2].attempts = StopAfterAttempt
    /\ fetchLog[1].batch = <<"A">> /\ fetchLog[2].batch = <<"B">>

\* a repeated identifier is sent once
C24_WitnessRepeated ==
    /\ pc = "normalize"
    /\ \E ds \in docs : Len(ds) = 2 /\ ItemNumberOf(ds[1]) = ItemNumberOf(ds[2])
                        /\ ItemNumberOf(ds[1]) # ""
    /\ Len(fetchLog) = 1

----------------------------------------------------------------------------
(* C25: the order and number of the writes of one run.                     *)

\* the positions of operation op in the log
OpsAt(op) == {k \in 1..Len(csvOps) : csvOps[k] = op}

DeltaWrites == {"write added", "write removed", "write changed"}

\* C25: no snapshot or delta file is touched before the rows are built; in a
\* finished run the current snapshot is written exactly once, after the
\* rotation if there was one, each delta file is written at most once, after
\* the snapshot; the delta stage does not write the current snapshot again.
C25_WrittenOnceInOrder ==
    /\ ~(RowsBuilt \/ pc = "aborted") => csvOps = <<>>
    /\ (pc = "done") =>
          /\ Cardinality(OpsAt("write OUT_CSV")) = 1
          /\ \A r \in OpsAt("rename OUT_CSV PREV_CSV"), w \in OpsAt("write OUT_CSV") :
                r = 1 /\ r < w
          /\ \A op \in DeltaWrites :
                /\ Cardinality(OpsAt(op)) <= 1
                /\ \A k \in OpsAt(op), w \in OpsAt("write OUT_CSV") : w < k

----------------------------------------------------------------------------
(* C26: the declared total of the termination test.                        *)

\* C26: the total every page's termination test used, and the total
\* paginate_api holds after its first page, is the one the first response
\* declared, none when that response declared none.
C26_TotalReadOnceFromFirstPage ==
    (Len(pageLog) >= 1 /\ pageLog[1].error = "") =>
        /\ \A k \in 2..Len(pageLog) :
              pageLog[k].error = "" => pageLog[k].num_found = pageLog[1].num_found
        /\ (pc \in {"page", "paginated"}) => num_found = pageLog[1].num_found

----------------------------------------------------------------------------
(* C27: a run killed between the snapshot and the deltas, and the run      *)
(* after it.                                                               *)

DeltaFiles(d) == [added |-> d.added, removed |-> d.removed, changed |-> d.changed]

\* C27: when the process is killed after line 417 and before line 511, the
\* current snapshot on disk holds every row of the run and the delta files are
\* the ones the run found, none is written for the new snapshot; the run
\* started afterwards raises nothing and has at each stage what the next one
\* reads, its previous snapshot is the killed run's snapshot and its delta
\* files are the deltas between that snapshot and its own rows.
C27_CrashBeforeDeltas ==
    /\ (pc = "crashed") =>
          /\ \A rs \in rows : disk.out = {to_csv(rs)}
          /\ DeltaFiles(disk) = DeltaFiles(disk0)
          /\ \A k \in 1..Len(csvOps) : csvOps[k] \notin DeltaWrites
    /\ afterCrash =>
          /\ error = ""
          /\ disk0.out # {}
          /\ pc \in {"normalize", "rotate", "write", "deltas", "crashed", "done"}
          /\ (pc = "normalize") => docs # {}
          /\ (pc \in {"rotate", "write", "deltas"}) => rows # {}
          /\ (pc = "done") =>
                /\ disk.prev = disk0.out
                /\ \A f0 \in disk0.out, rs \in rows :
                      LET r == Deltas(f0, rs)
                      IN  /\ disk.out = {to_csv(rs)}
                          /\ disk.added = DeltaFile(r.added_ids, fillna(rs))
                          /\ disk.removed = DeltaFile(r.removed_ids, read_csv(f0))
                          /\ disk.changed = IF Len(r.changed_rows) = 0 THEN {}
                                            ELSE {r.changed_rows}

\* the killed run left the delta files of an earlier run beside its snapshot,
\* and the run after it replaced them by the deltas against that snapshot
C27_Witness ==
    /\ afterCrash /\ pc = "done"
    /\ disk0.prev # {} /\ disk0.changed # {}
    /\ disk.added # {} /\ disk.changed = {}

----------------------------------------------------------------------------
(* C28: an id that more than one record carries.                           *)

\* the last record a snapshot file holds for id
LastRecordOf(file, id) ==
    LET at == {k \in 1..Len(file) : file[k].id = id}
    IN  file[CHOOSE k \in at : \A j \in at : j <= k]

\* no cell of the record is one of the texts read_csv takes for missing
PlainRecord(rec) == \A c \in DOMAIN rec : rec[c] \notin NaCells \ {""}

\* C28, as stated: an id of both snapshots that one of them holds more than
\* once, and whose last record is the same in both, is in none of the three
\* delta sets.
C28_DuplicateIdIsOneKey ==
    DeltasComputed =>
        \A cur \in disk.out, prv \in disk.prev, rs \in rows :
            \A id \in (StoredIds(cur) \cap StoredIds(prv))
                          \ (SingleIds(cur) \cap SingleIds(prv)) :
                (/\ PlainRecord(LastRecordOf(cur, id))
                 /\ LastRecordOf(cur, id) = LastRecordOf(prv, id)) =>
                    LET r == Deltas(prv, rs)
                    IN  /\ id \notin Range(r.added_ids)
                        /\ id \notin Range(r.removed_ids)
                        /\ \A e \in ChangedEntries : e.id # id

----------------------------------------------------------------------------
(* C29: the interactive credential capture.                                *)

\* the capture is over: it returned to run_sync or raised into it
CaptureOver == pc = "reprobe" \/ (pc = "aborted" /\ error = ErrRefresh)

\* the list holds a cookie of a recognized security-cookie name
HasSecurityCookie(cs) ==
    \E k \in 1..Len(cs) : cs[k].name \in {"bm_s", "bm_sz", "bm_sc", "_abck", "ak_bmsc"}

\* what holds of the poll loop and of what the capture hands back
PollLoopInv ==
    \* the loop goes round only while no security cookie was seen
    /\ (pc = "poll" /\ polled # {}) =>
          /\ \A cs \in polled : ~HasSecurityCookie(cs)
          /\ elapsed >= PollSleep
    \* a pass starts before the ceiling, so the last sleep ends within one
    \* sleep of it
    /\ (pc \in {"poll", "capture", "reprobe"}) =>
          elapsed < PollCeiling + PollSleep + MaxLate
    \* it is left with a security cookie seen or with the ceiling passed
    /\ (pc = "capture") =>
          \/ \E cs \in polled : HasSecurityCookie(cs)
          \/ elapsed >= PollCeiling
    \* the cookies returned, none included, are the ones run_sync holds and
    \* builds its header from, and the ones in the store when the save worked
    /\ (pc = "reprobe") =>
          /\ cookies \in {{cs} : cs \in BrowserCookieLists}
          /\ cookie_header = HeaderOf(cookies)
          /\ disk.cookies \in {disk0.cookies} \cup {{JsonOf(cs)} : cs \in cookies}
          /\ Len(probeLog) = 1

\* between two polls the loop sleeps
SleepsBetweenPolls ==
    (pc = "poll" /\ pc' = "poll") => elapsed' >= elapsed + PollSleep

\* C29: the capture, once begun, is over at some time; its loop is left as
\* soon as a security cookie is seen or the ceiling has passed, with a sleep
\* between polls; what it returns, none included, is saved and reaches run_sync
\* before the second probe.
C29_CaptureTerminates ==
    /\ []PollLoopInv
    /\ [][SleepsBetweenPolls]_vars
    /\ (pc = "refresh") ~> CaptureOver

\* the ceiling passed without a security cookie; the capture returned no
\* cookie at all, saved that, and the second probe is about to go without header
C29_Witness ==
    /\ pc = "reprobe"
    /\ elapsed >= PollCeiling
    /\ cookies = {<<>>}
    /\ disk.cookies = {JsonOf(<<>>)}
    /\ cookie_header = {}

----------------------------------------------------------------------------
(* C30: failures of the credential store.                                  *)

\* the store a run found cannot be read as a cookie list
StoreUnreadable == \A f \in disk0.cookies : ~f.valid

\* the save of the refreshed cookies failed: the store is as the run found it
\* (no list the browser hands back is the stored one)
SaveFailed == pc = "reprobe" /\ disk.cookies = disk0.cookies

\* C30: a store that is missing or cannot be parsed loads as absent, a store
\* that can as its list, and the run goes on to its first probe, sent without
\* header when nothing was loaded; after a save that failed the run goes on
\* to its second probe with the cookies the capture returned and the header
\* built from them.  The only errors that end a run before pagination are the
\* raised refresh and the failed second probe.
C30_StoreFailuresNotFatal ==
    /\ (pc = "probe") =>
          /\ error = ""
          /\ cookies = IF StoreUnreadable THEN {}
                       ELSE {f.list : f \in disk0.cookies}
          /\ (cookies = {}) => cookie_header = {}
    /\ (Len(probeLog) >= 1 /\ StoreUnreadable) => probeLog[1].header = {}
    /\ SaveFailed =>
          /\ error = ""
          /\ cookies \in {{cs} : cs \in BrowserCookieLists}
          /\ cookie_header = HeaderOf(cookies)
    /\ (Len(probeLog) = 2 /\ pc \in {"paginate", "aborted"}) =>
          probeLog[2].header = cookie_header
    /\ (pc = "aborted" /\ nPaginate = 0) => error \in {ErrRefresh, ErrAuth}

\* the store could not be parsed, the save of the refreshed cookies failed,
\* and the run is past its second probe, authorized by the cookies in memory
C30_Witness ==
    /\ pc = "paginate"
    /\ disk0.cookies = {Corrupt}
    /\ disk.cookies = {Corrupt}
    /\ Len(probeLog) = 2
    /\ probeLog[1].header = {}
    /\ probeLog[2].header = {cookie_header_from_list(NewCookies)}
    /\ probeLog[2].status = {200}

----------------------------------------------------------------------------
(* C31: the cookie header.                                                 *)

\* the entries of cs that have both a name and a value, in the order of cs
WithNameAndValue(cs) ==
    LET both(c) == {"name", "value"} \subseteq DOMAIN c
    IN  SelectSeq(cs, both)

\* the texts of ts with "; " between neighbours
RECURSIVE Joined(_)
Joined(ts) ==
    IF Len(ts) = 0 THEN ""
    ELSE IF Len(ts) = 1 THEN ts[1]
    ELSE Joined(SubSeq(ts, 1, Len(ts) - 1)) \o "; " \o ts[Len(ts)]

\* the list the store held when the run started
StoredList == (CHOOSE f \in disk0.cookies : TRUE).list

\* C31: the header derived from the loaded cookie list, and sent by the first
\* probe, is the name=value pairs of exactly the entries that have both a name
\* and a value, in the list's order, joined by "; "; entries without a name or
\* a value add nothing and raise nothing; an empty list gives no header.
C31_HeaderIsJoinedPairs ==
    (pc # "start") =>
        LET w == WithNameAndValue(StoredList)
            expected == Joined([k \in 1..Len(w) |-> w[k].name \o "=" \o w[k].value])
        IN  /\ error = ""
            /\ cookies = {StoredList}
            /\ cookie_header = IF Len(StoredList) = 0 THEN {} ELSE {expected}
            /\ \A k \in 1..Len(probeLog) : probeLog[k].header = cookie_header

\* a list of three entries, the middle one without a value, was sent as the
\* two pairs around it
C31_Witness ==
    /\ Len(probeLog) = 1
    /\ cookies = {<<[name |-> "b", value |-> "2"], [name |-> "c"],
                    [name |-> "a", value |-> "1"]>>}
    /\ probeLog[1].header = {"b=2; a=1"}

\* a non-empty list none of whose entries has both gives the empty header
C31_WitnessAllSkipped ==
    /\ Len(probeLog) = 1
    /\ cookies = {<<[name |-> "c"], [value |-> "3"]>>}
    /\ cookie_header = {""}

----------------------------------------------------------------------------
(* C32: pagination follows a successful probe and sends its credentials.   *)

\* the probe issued last
LastProbe == probeLog[Len(probeLog)]

\* run_sync is about to call paginate_api
AboutToPaginate == pc = "paginate"

\* what holds when paginate_api is about to be called, and of its requests
PaginateAfterProbeInv ==
    /\ AboutToPaginate =>
          /\ Len(probeLog) \in {1, 2}
          /\ LastProbe.status = {200}
          /\ \A k \in 1..(Len(probeLog) - 1) : probeLog[k].status # {200}
          /\ LastProbe.header = cookie_header
          /\ cookie_header = HeaderOf(cookies)
          /\ (Len(probeLog) = 1) => (nRefresh = 0 /\ cookies = load_cookies(disk0))
          /\ (Len(probeLog) = 2) =>
                (nRefresh = 1 /\ cookies \in {{cs} : cs \in BrowserCookieLists})
    /\ nPaginate <= 1
    /\ (pc \in {"page", "paginated"}) =>
          \A k \in 1..Len(pageLog) : pageLog[k].header = cookie_header

\* paginate_api is entered from that point only, and the header is the same
\* from the successful probe to the last page request
PaginateStep ==
    /\ (nPaginate' # nPaginate) => (AboutToPaginate /\ cookie_header' = cookie_header)
    /\ (pc = "page" /\ pc' \in {"page", "paginated"}) => cookie_header' = cookie_header

\* C32: paginate_api is called, once, only when the last probe of the run
\* returned 200, every earlier probe having failed; the header of its page
\* requests is the header that probe sent, built from the refreshed cookies
\* when there was a refresh and from the loaded ones otherwise.
C32_PaginateAfterSuccessfulProbe ==
    /\ []PaginateAfterProbeInv
    /\ [][PaginateStep]_vars

\* a page was requested with the header of the refreshed cookies, the stored
\* ones having been refused
C32_Witness ==
    /\ pc = "page"
    /\ Len(pageLog) >= 1
    /\ disk0.cookies = {JsonOf(OldCookies)}
    /\ pageLog[1].header = {cookie_header_from_list(NewCookies)}
    /\ pageLog[1].status = {200}

----------------------------------------------------------------------------
(* C33: the rows the backfill utility writes.                              *)

\* the price is empty or blank
BlankPrice(row) == strip(row.price) = ""

\* C33, as stated: the output holds the input rows read so far, each once and
\* in the order of the input, all of them when the utility is done; a row
\* whose stored price is not blank is written with that price, so that only
\* rows with a blank price carry a looked-up price.
C33_RowsOnceInOrderPricesKept ==
    (bpc \in {"chunks", "done"}) =>
        \A input \in INPUT :
            /\ Len(OUT) = row_offset
            /\ row_offset <= Len(input)
            /\ (bpc = "done") => Len(OUT) = Len(input)
            /\ \A k \in 1..Len(OUT) :
                  /\ OUT[k].id = input[k].id
                  /\ OUT[k].name = input[k].name
                  /\ ~BlankPrice(input[k]) => OUT[k].price = input[k].price
                  /\ (OUT[k].price # input[k].price) => BlankPrice(input[k])

----------------------------------------------------------------------------
(* C34: one scrape worker at a time.                                       *)

\* thread t has statements of run_batch_scrape left to execute
WorkerRunning(t) == threads[t].pc \in {"scraping", "except", "finally"}

RunningWorkers == {t \in 1..Len(threads) : WorkerRunning(t)}

\* the place of a warehouse in the list of all warehouses
PlaceOf(w) == CHOOSE k \in 1..Len(AllWarehouses) : AllWarehouses[k] = w

OneWorkerInv ==
    /\ Cardinality(RunningWorkers) <= 1
    /\ (RunningWorkers # {}) => scrape_btn = "disabled"
    /\ \A t \in 1..Len(threads) :
          LET w == threads[t]
          IN  /\ w.scraped = SubSeq(w.warehouses, 1, w.i)
              /\ \A a, b \in 1..Len(w.warehouses) :
                    a < b => PlaceOf(w.warehouses[a]) < PlaceOf(w.warehouses[b])
              /\ (w.pc = "scraping" /\ ~w.raised) => Len(w.warehouses) >= 1

\* a worker is started, and the button handed back, only while no worker runs
OneWorkerStep ==
    /\ Len(threads') > Len(threads) => RunningWorkers = {}
    /\ (scrape_btn = "disabled" /\ scrape_btn' = "normal") => RunningWorkers = {}

\* C34: at most one worker is running run_batch_scrape; while one is, the
\* button is disabled, so that no other can be started; the button is normal
\* again only when every worker has executed its last statement, after success
\* and after an exception alike; each worker scrapes its warehouses one after
\* another, in the order of the list they were selected in.
C34_OneWorkerAtATime == []OneWorkerInv /\ [][OneWorkerStep]_vars

\* a first worker raised and ended, the button came back, and a second worker
\* has scraped the first of its two warehouses with the button disabled
C34_Witness ==
    /\ Len(threads) = 2
    /\ threads[1].pc = "exited" /\ threads[1].raised
    /\ threads[2].pc = "scraping"
    /\ Len(threads[2].warehouses) = 2
    /\ threads[2].scraped = <<threads[2].warehouses[1]>>
    /\ scrape_btn = "disabled"
    /\ after_queue = <<>>
============================================================================
